---- MODULE Spec2Model ----
(***************************************************************************)
(* Model of the ai-hedge-fund-sim core: the FIFO lot ledger of             *)
(* PositionController (buyStock / sellStock / executeFIFOSell), the        *)
(* RiskManager position sizing and trade validation, the StrategyEngine    *)
(* consensus, MovingAverageStrategy.analyze over the StockData table, the  *)
(* day loop of BacktestEngine.runBacktest (with the shipped strategy and   *)
(* with freely drawn signals), and the sessions of AutoTradingEngine:      *)
(* start, pause, resume, stop, the trading cycle and its live execution.   *)
(*                                                                         *)
(* Money is in whole dollars and share counts are integers.  Fractions     *)
(* (confidence, volatility, percentages) are exact rationals carried as    *)
(* integer numerators over a fixed denominator, so that Math.floor and     *)
(* comparisons are computed exactly; IEEE rounding is not modelled.        *)
(***************************************************************************)
EXTENDS Integers, Sequences, FiniteSets, TLC

VARIABLES
    positions,      \* the Position table: sequence indexed by the SERIAL id
    now,            \* the wall clock read by `new Date()` (milliseconds)
    res,            \* the last HTTP response written by buyStock / sellStock
    soldPositions,  \* the value returned by the last executeFIFOSell
    bought,         \* observer: per ticker, total quantity of accepted buys
    returned,       \* observer: per ticker, total quantity of returned sub-lots
    phase,          \* observer: per ticker, shape of the history so far
    req,            \* in-flight sell requests (concurrent specification)
    params,         \* the PositionSizeParams of the last calculatePositionSize
    shares,         \* its return value
    run,            \* fund and market figures read by one executeAllStrategies
    strategyResults,\* per registered strategy, its StrategyExecutionResult
    portfolio,      \* the StrategyPortfolioResult returned by executeAllStrategies
    riskCheck,      \* the arguments of the last call of validateTradeRisk
    market,         \* the StockData table: the shape of its price series, or the
                    \* closes of the dates read so far (free-signal backtest)
    analysis,       \* the last call of MovingAverageStrategy.analyze and its signal
    config,         \* the strategy, BacktestConfig and tickers passed to runBacktest
    bt,             \* the locals of the runBacktest call in progress
    firstRun,       \* the outcome of the earlier runBacktest call with the same arguments
    session,        \* the AutoTradeSession of the engine and its interval timers
    cycle,          \* the executeTradingCycle call in progress
    audit,          \* the risk validations returned and the trades handed to execution
    today           \* the calendar day new Date() falls on

ledgerVars == <<positions, now, res, soldPositions, bought, returned, phase>>
sizingVars == <<params, shares>>
engineVars == <<run, strategyResults, portfolio>>
riskVars == <<riskCheck>>
analysisVars == <<market, analysis>>
backtestVars == <<config, bt, firstRun>>
autoVars == <<session, cycle, audit, today>>
notLedger == <<sizingVars, engineVars, riskVars, analysisVars, backtestVars, autoVars>>
notSizing == <<ledgerVars, req, engineVars, riskVars, analysisVars, backtestVars, autoVars>>
notEngine == <<ledgerVars, req, sizingVars, riskVars, analysisVars, backtestVars, autoVars>>
notRisk == <<ledgerVars, req, sizingVars, engineVars, analysisVars, backtestVars, autoVars>>
notAnalysis == <<ledgerVars, req, sizingVars, engineVars, riskVars, backtestVars, autoVars>>
notBacktest == <<ledgerVars, req, sizingVars, engineVars, riskVars, analysis, autoVars>>
notAuto == <<ledgerVars, req, sizingVars, engineVars, riskVars, analysisVars, backtestVars>>
vars == <<positions, now, res, soldPositions, bought, returned, phase, req,
          params, shares, run, strategyResults, portfolio, riskCheck,
          market, analysis, config, bt, firstRun, session, cycle, audit, today>>

----------------------------------------------------------------------------
(* Bounds *)

MaxTime == 4        \* number of clock readings (lots created or sells executed)
MaxQty == 2         \* largest order quantity that is tried
MaxDay == 70        \* the StockData table holds the bars of days 1 .. MaxDay

(* Program data *)

Tickers == {"AAPL", "MSFT"}
Prices == {10, 12}
Quantities == -1 .. MaxQty
InitialCapital == 60
NULL == -1

----------------------------------------------------------------------------
(* Generic helpers *)

RECURSIVE SumSeq(_)
SumSeq(s) == IF Len(s) = 0 THEN 0 ELSE Head(s) + SumSeq(Tail(s))

RECURSIVE SumSet(_, _)
SumSet(S, f) ==
    IF S = {} THEN 0
    ELSE LET x == CHOOSE y \in S : TRUE IN f[x] + SumSet(S \ {x}, f)

----------------------------------------------------------------------------
(* The Position table *)

\* where: { fundId, ticker, isActive: true }
ActiveIds(db, ticker) ==
    {i \in 1 .. Len(db) : db[i].ticker = ticker /\ db[i].isActive}

\* where: { fundId, isActive: true }
AllActiveIds(db) == {i \in 1 .. Len(db) : db[i].isActive}

\* Faulty variant: orderBy: { entryDate: 'desc' } (newest first)
OrderDesc(a, b) == a.entryDate > b.entryDate \/ (a.entryDate = b.entryDate /\ a.id > b.id)

\* orderBy: { entryDate: 'asc' }
OrderAsc(a, b) == a.entryDate < b.entryDate \/ (a.entryDate = b.entryDate /\ a.id < b.id)

RECURSIVE SortIds(_, _)
SortIds(db, S) ==
    IF S = {} THEN <<>>
    ELSE LET first == CHOOSE i \in S : \A j \in S \ {i} : OrderAsc(db[i], db[j])
         IN <<db[first]>> \o SortIds(db, S \ {first})

\* prisma.position.findMany({ where: {fundId, ticker, isActive: true},
\*                            orderBy: { entryDate: 'asc' } })
findManyActiveAsc(db, ticker) == SortIds(db, ActiveIds(db, ticker))

\* @@unique([fundId, ticker, entryDate])
UniqueViolation(db, ticker, entryDate) ==
    \E i \in 1 .. Len(db) : db[i].ticker = ticker /\ db[i].entryDate = entryDate

\* prisma.position.create for a buy
NewOpenLot(db, ticker, quantity, price, date) ==
    [id |-> Len(db) + 1, ticker |-> ticker, entryDate |-> date, exitDate |-> NULL,
     quantity |-> quantity, entryPrice |-> price, exitPrice |-> NULL, isActive |-> TRUE]

\* prisma.position.create for the sold portion of a partial sell
NewClosedLot(db, position, quantityToTake, exitPrice, date) ==
    [id |-> Len(db) + 1, ticker |-> position.ticker, entryDate |-> date, exitDate |-> date,
     quantity |-> quantityToTake, entryPrice |-> position.entryPrice,
     exitPrice |-> exitPrice, isActive |-> FALSE]

\* prisma.position.update({ data: { isActive: false, exitDate, exitPrice } })
UpdateClose(db, id, exitPrice, date) ==
    [db EXCEPT ![id].isActive = FALSE, ![id].exitDate = date, ![id].exitPrice = exitPrice]

\* prisma.position.update({ data: { quantity: quantityToLeave } })
UpdateQuantity(db, id, quantityToLeave) ==
    [db EXCEPT ![id].quantity = quantityToLeave]

----------------------------------------------------------------------------
(* PositionController helpers *)

getAvailableShares(db, ticker) ==
    SumSet(ActiveIds(db, ticker), [i \in 1 .. Len(db) |-> db[i].quantity])

calculateAvailableCapital(db) ==
    InitialCapital
      - SumSet(AllActiveIds(db), [i \in 1 .. Len(db) |-> db[i].entryPrice * db[i].quantity])

\* Faulty variant: a lot exactly as large as the remainder is split, not closed.
SellsEntirePositionStrict(position, remainingToSell) == position.quantity < remainingToSell

\* if (position.quantity <= remainingToSell): sell the entire position
SellsEntirePosition(position, remainingToSell) == position.quantity <= remainingToSell

\* Faulty variant: the subtraction is written the wrong way round.
quantityToLeaveSwapped(position, quantityToTake) == quantityToTake - position.quantity

\* const quantityToLeave = position.quantity - quantityToTake
quantityToLeave(position, quantityToTake) == position.quantity - quantityToTake

\* Faulty variant: the whole lot is reported although only a part was taken.
SoldEntryWhole(position, quantity) ==
    [id |-> position.id, quantity |-> position.quantity, entryPrice |-> position.entryPrice]

\* soldPositions.push({ id, quantity, entryPrice })
SoldEntry(position, quantity) ==
    [id |-> position.id, quantity |-> quantity, entryPrice |-> position.entryPrice]

\* The for-loop of executeFIFOSell over the list read by findMany, from index i.
\* The result carries the table, the sub-lots pushed so far and whether a
\* database call threw (the unique index on the create of a partial sell).
RECURSIVE FIFOLoop(_, _, _, _, _, _, _)
FIFOLoop(db, list, i, remainingToSell, sold, exitPrice, date) ==
    IF i > Len(list) \/ remainingToSell <= 0
    THEN [db |-> db, soldPositions |-> sold, threw |-> FALSE]
    ELSE LET position == list[i] IN
         IF SellsEntirePosition(position, remainingToSell)
         THEN FIFOLoop(UpdateClose(db, position.id, exitPrice, date), list, i + 1,
                       remainingToSell - position.quantity,
                       Append(sold, SoldEntry(position, position.quantity)),
                       exitPrice, date)
         ELSE LET quantityToTake == remainingToSell
                  reduced == UpdateQuantity(db, position.id,
                                            quantityToLeave(position, quantityToTake))
              IN IF UniqueViolation(reduced, position.ticker, date)
                 THEN [db |-> reduced, soldPositions |-> sold, threw |-> TRUE]
                 ELSE FIFOLoop(Append(reduced,
                                      NewClosedLot(reduced, position, quantityToTake,
                                                   exitPrice, date)),
                               list, i + 1, 0,
                               Append(sold, SoldEntry(position, quantityToTake)),
                               exitPrice, date)

executeFIFOSell(db, ticker, quantityToSell, exitPrice, date) ==
    FIFOLoop(db, findManyActiveAsc(db, ticker), 1, quantityToSell, <<>>, exitPrice, date)

----------------------------------------------------------------------------
(* HTTP responses of the position controller *)

NoResponse ==
    [status |-> 0, success |-> FALSE, message |-> "none", type |-> "NONE",
     ticker |-> "", quantity |-> 0, price |-> 0, totalValue |-> 0, costBasis |-> 0,
     realizedPnL |-> 0, pctNum |-> 0, pctDen |-> 1, positionsClosed |-> 0,
     available |-> 0, requested |-> 0]

\* res.status(400 | 500).json({ success: false, message })
ErrorResponse(type, status, message) ==
    [NoResponse EXCEPT !.status = status, !.message = message, !.type = type]

\* message: `Insufficient shares to sell. Available: ${availableShares}, Requested: ${quantity}`
\* message: `Insufficient funds. Required: $${tradeValue}, Available: $${currentCapital}`
InsufficientResponse(type, message, ticker, available, requested) ==
    [NoResponse EXCEPT !.status = 400, !.message = message, !.type = type,
                       !.ticker = ticker, !.available = available,
                       !.requested = requested]

\* const totalCostBasis = soldPositions.reduce((sum, pos) => sum + pos.quantity * pos.entryPrice, 0)
totalCostBasis(sold) ==
    SumSeq([k \in 1 .. Len(sold) |-> sold[k].quantity * sold[k].entryPrice])

\* Faulty variant: cost minus proceeds.
realizedPnLSwapped(tradeValue, costBasis) == costBasis - tradeValue

\* const realizedPnL = tradeValue.toNumber() - totalCostBasis
realizedPnL(tradeValue, costBasis) == tradeValue - costBasis

\* res.json({ success: true, data: { trade, pnl, positionsClosed } }) of sellStock.
\* realizedPnLPercent is the exact fraction pctNum / pctDen.
SellResponse(ticker, quantity, sellPrice, sold) ==
    LET tradeValue == sellPrice * quantity
        costBasis == totalCostBasis(sold)
        pnl == realizedPnL(tradeValue, costBasis)
    IN [status |-> 200, success |-> TRUE, message |-> "Sell order executed successfully",
        type |-> "SELL", ticker |-> ticker, quantity |-> quantity, price |-> sellPrice,
        totalValue |-> tradeValue, costBasis |-> costBasis, realizedPnL |-> pnl,
        pctNum |-> IF costBasis > 0 THEN pnl * 100 ELSE 0,
        pctDen |-> IF costBasis > 0 THEN costBasis ELSE 1,
        positionsClosed |-> Len(sold)]

BuyResponse(ticker, quantity, currentPrice) ==
    [NoResponse EXCEPT !.status = 201, !.success = TRUE,
                       !.message = "Buy order executed successfully", !.type = "BUY",
                       !.ticker = ticker, !.quantity = quantity, !.price = currentPrice,
                       !.totalValue = currentPrice * quantity]

\* Faulty variant: the availability check never rejects.
InsufficientSharesOff(availableShares, quantity) == availableShares < 0

\* if (availableShares < quantity) -> 400 Insufficient shares
InsufficientShares(availableShares, quantity) == availableShares < quantity

\* if (currentCapital.lt(tradeValue)) -> 400 Insufficient funds
InsufficientFunds(currentCapital, tradeValue) == currentCapital < tradeValue

SoldQuantity(sold) == SumSeq([k \in 1 .. Len(sold) |-> sold[k].quantity])

\* Observer of the history of one ticker: buys only, then sells only, or mixed.
PhaseAfterBuy(p) == IF p \in {"none", "buying"} THEN "buying" ELSE "mixed"
PhaseAfterSell(p) == IF p \in {"buying", "selling"} THEN "selling" ELSE "mixed"

----------------------------------------------------------------------------
(* RiskManager position sizing.  confidence and volatility are in          *)
(* hundredths (Scale), currentPrice in cents, fund value and cash in       *)
(* dollars.  Values are exact fractions over the denominators named below. *)

Scale == 100
maxPositionSize == 10       \* defaultRiskLimits.maxPositionSize = 0.10
minCashReserve == 5         \* defaultRiskLimits.minCashReserve = 0.05
averageWin == 10            \* const averageWin = 0.10
kellyCap == 25              \* Math.min(..., 0.25)

Min(a, b) == IF a <= b THEN a ELSE b
Max(a, b) == IF a >= b THEN a ELSE b

\* Denominator of the Kelly fraction: kelly = numerator / KellyDen
KellyDen == 2 * Scale * averageWin

\* calculateKellyFraction: winProbability = (confidence + 1) / 2,
\* kelly = (winProbability * averageWin - lossProbability * averageLoss) / averageWin,
\* clamped to [0, 0.25].  Returns the numerator over KellyDen.
calculateKellyFraction(confidence, volatility) ==
    LET kelly == (confidence + Scale) * averageWin - (Scale - confidence) * volatility
    IN Min(Max(kelly, 0), (kellyCap * KellyDen) \div Scale)

\* Denominator of the dollar values compared by Math.min
ValueDen == KellyDen * Scale

\* Faulty variant: the cash reserve limit is left out of the minimum.
constrainedValueNoCash(basePositionValue, maxPositionValue, maxCashToUse) ==
    Min(basePositionValue, maxPositionValue)

\* Math.min(basePositionValue, maxPositionValue, maxCashToUse)
constrainedValue(basePositionValue, maxPositionValue, maxCashToUse) ==
    Min(basePositionValue, Min(maxPositionValue, maxCashToUse))

\* RiskManager.calculatePositionSize; dollar values are numerators over ValueDen.
calculatePositionSize(p) ==
    IF p.signal = "HOLD" \/ p.signal = "SELL"
    THEN 0
    ELSE LET kellyFraction == calculateKellyFraction(p.confidence, p.volatility)
             basePositionValue == p.fundValue * kellyFraction * p.confidence
             maxPositionValue == p.fundValue * maxPositionSize * KellyDen
             maxCashToUse == p.availableCash * (Scale - minCashReserve) * KellyDen
             value == constrainedValue(basePositionValue, maxPositionValue, maxCashToUse)
             \* Math.floor(constrainedValue / currentPrice), currentPrice in cents
             floored == (value * Scale) \div (ValueDen * p.currentPrice)
         IN Max(0, floored)

Signals == {"BUY", "SELL", "HOLD"}
Confidences == {0, 55, 80, 100}
Volatilities == {0, 2, 30}
PricesInCents == {50, 100, 333}
FundValues == {0, 1000, 1003}
CashValues == {0, 40, 1000}

NoParams ==
    [currentPrice |-> 0, confidence |-> 0, signal |-> "NONE", volatility |-> 0,
     fundValue |-> 0, availableCash |-> 0]

SizingIdle ==
    /\ params = NoParams
    /\ shares = NULL

----------------------------------------------------------------------------
(* StrategyEngine: the registry and the aggregation of the results *)

\* initializeStrategies registers these three, in this order.
StrategyOrder == <<"conservative", "standard", "aggressive">>
Strategies == {StrategyOrder[k] : k \in 1 .. Len(StrategyOrder)}

\* createConservativeConfig / createStandardConfig / createAggressiveConfig
minConfidence ==
    [st \in Strategies |->
        CASE st = "conservative" -> 70
          [] st = "standard" -> 60
          [] st = "aggressive" -> 50]

\* BaseStrategy.shouldExecuteTrade
shouldExecuteTrade(st, signal) ==
    signal.confidence >= minConfidence[st] /\ signal.action # "HOLD"

NoResult ==
    [action |-> "NONE", confidence |-> 0, shouldExecute |-> FALSE,
     positionSize |-> NULL, failed |-> FALSE]

\* The result returned by the catch block of executeStrategy
FailedResult ==
    [action |-> "HOLD", confidence |-> 0, shouldExecute |-> FALSE,
     positionSize |-> NULL, failed |-> TRUE]

NoRun == [fundValue |-> 0, availableCash |-> 0, currentPrice |-> 0, volatility |-> 0]

NoPortfolio ==
    [consensus |-> "NONE", confidenceSum |-> 0, count |-> 0, recommendedSize |-> NULL]

EngineIdle ==
    /\ run = NoRun
    /\ strategyResults = [st \in Strategies |-> NoResult]
    /\ portfolio = NoPortfolio

\* Faulty variant: the join resolves as soon as one promise has resolved.
PromiseAny(results) == \E st \in Strategies : results[st] # NoResult

\* await Promise.all(strategyPromises): resolves once every promise has
\* resolved.  executeStrategy catches every exception, so none rejects.
PromiseAll(results) == \A st \in Strategies : results[st] # NoResult

\* The results array of Promise.all, in registry order
ResultList(results) == [k \in 1 .. Len(StrategyOrder) |-> results[StrategyOrder[k]]]

\* results.forEach(result => { if (result.shouldExecute) votes[action] += confidence
\*                             else votes.HOLD += 1 })
RECURSIVE Votes(_, _)
Votes(list, action) ==
    IF Len(list) = 0 THEN 0
    ELSE LET result == Head(list)
             vote == IF result.shouldExecute
                     THEN (IF result.action = action THEN result.confidence ELSE 0)
                     ELSE (IF action = "HOLD" THEN Scale ELSE 0)
         IN vote + Votes(Tail(list), action)

\* Faulty variant: SELL is tested before BUY.
PickConsensusSellFirst(buy, sell, hold) ==
    LET maxVote == Max(buy, Max(sell, hold))
    IN IF sell = maxVote THEN "SELL" ELSE IF buy = maxVote THEN "BUY" ELSE "HOLD"

\* const maxVote = Math.max(...); if (votes.BUY === maxVote) return 'BUY'; ...
PickConsensus(buy, sell, hold) ==
    LET maxVote == Max(buy, Max(sell, hold))
    IN IF buy = maxVote THEN "BUY" ELSE IF sell = maxVote THEN "SELL" ELSE "HOLD"

\* StrategyEngine.calculateConsensus
calculateConsensus(list) ==
    PickConsensus(Votes(list, "BUY"), Votes(list, "SELL"), Votes(list, "HOLD"))

\* results.filter(result => result.shouldExecute && result.positionSize):
\* undefined and 0 are both falsy.
IsExecutableResult(result) ==
    result.shouldExecute /\ result.positionSize # NULL /\ result.positionSize # 0

RECURSIVE WeightedSize(_)
WeightedSize(list) ==
    IF Len(list) = 0 THEN 0
    ELSE (IF IsExecutableResult(Head(list))
          THEN Head(list).positionSize * Head(list).confidence ELSE 0)
         + WeightedSize(Tail(list))

RECURSIVE TotalWeight(_)
TotalWeight(list) ==
    IF Len(list) = 0 THEN 0
    ELSE (IF IsExecutableResult(Head(list)) THEN Head(list).confidence ELSE 0)
         + TotalWeight(Tail(list))

\* StrategyEngine.calculateRecommendedSize
calculateRecommendedSize(list) ==
    IF \A k \in 1 .. Len(list) : ~IsExecutableResult(list[k]) THEN 0
    ELSE IF TotalWeight(list) > 0
         THEN WeightedSize(list) \div TotalWeight(list)
         ELSE 0

\* StrategyEngine.calculateAverageConfidence, as the pair (sum, count)
ConfidenceSum(list) == SumSeq([k \in 1 .. Len(list) |-> list[k].confidence])

----------------------------------------------------------------------------
(* RiskManager.validateTradeRisk.  Money is in whole dollars; the limits   *)
(* are compared exactly by cross-multiplication.                           *)

maxLeverage == 2            \* defaultRiskLimits.maxLeverage = 2.0

\* The Fund table holds fund 1 only.
FundIds == {1, 2}
FundExists(fundId) == fundId = 1
RiskCapital == 1000

\* The OPEN lots of the fund and the latest close of their ticker
RiskLots ==
    {<<>>} \cup {<<[quantity |-> q, entryPrice |-> 10, currentPrice |-> c]>> :
                    q \in {10, 90}, c \in {5, 10, 30}}

\* RiskManager.calculateRiskMetrics: throws when the fund is not found.
calculateRiskMetrics(fundId, lots) ==
    IF ~FundExists(fundId)
    THEN [threw |-> TRUE, totalValue |-> 0, totalExposure |-> 0, availableCash |-> 0]
    ELSE LET totalExposure ==
                 SumSeq([k \in 1 .. Len(lots) |-> lots[k].quantity * lots[k].currentPrice])
             totalPnL ==
                 SumSeq([k \in 1 .. Len(lots) |->
                            (lots[k].currentPrice - lots[k].entryPrice) * lots[k].quantity])
             totalValue == RiskCapital + totalPnL
         IN [threw |-> FALSE, totalValue |-> totalValue, totalExposure |-> totalExposure,
             availableCash |-> totalValue - totalExposure]

Abs(x) == IF x < 0 THEN -x ELSE x

\* num / den > limit / Scale as the IEEE division decides it: x / 0 is
\* Infinity for x > 0 and NaN for x = 0, and NaN compares false.
RatioExceeds(num, den, limit) ==
    IF den > 0 THEN num * Scale > limit * den
    ELSE IF den = 0 THEN num > 0
    ELSE num * Scale < limit * den

\* The violations pushed by the three checks, in order
Violations(quantity, tradeValue, riskMetrics) ==
    (IF RatioExceeds(tradeValue, riskMetrics.totalValue, maxPositionSize)
     THEN <<"POSITION_SIZE">> ELSE <<>>)
    \o (IF quantity > 0
           /\ tradeValue * Scale > riskMetrics.availableCash * (Scale - minCashReserve)
        THEN <<"CASH_RESERVE">> ELSE <<>>)
    \o (IF RatioExceeds(riskMetrics.totalExposure + tradeValue, riskMetrics.totalValue,
                        maxLeverage * Scale)
        THEN <<"LEVERAGE">> ELSE <<>>)

\* isValid: violations.length === 0
isValid(violations) == Len(violations) = 0

\* RiskManager.validateTradeRisk: the exception of calculateRiskMetrics is
\* not caught.
validateTradeRisk(fundId, quantity, price, lots) ==
    LET riskMetrics == calculateRiskMetrics(fundId, lots)
        violations == Violations(quantity, Abs(quantity * price), riskMetrics)
    IN IF riskMetrics.threw
       THEN [threw |-> TRUE, isValid |-> FALSE, violations |-> <<>>,
             riskMetrics |-> riskMetrics]
       ELSE [threw |-> FALSE, isValid |-> isValid(violations), violations |-> violations,
             riskMetrics |-> riskMetrics]

NoRiskCheck == [fundId |-> 0, quantity |-> 0, price |-> 0, lots |-> <<>>, called |-> FALSE]

RiskIdle == riskCheck = NoRiskCheck

----------------------------------------------------------------------------
(* Exact fractions: [n, d] with d > 0, in lowest terms *)

RECURSIVE GCD(_, _)
GCD(a, b) == IF b = 0 THEN a ELSE GCD(b, a % b)

Rat(n, d) == LET g == GCD(Abs(n), d) IN [n |-> n \div g, d |-> d \div g]

RLess(a, b) == a.n * b.d < b.n * a.d
RLeq(a, b) == a.n * b.d <= b.n * a.d
RMin(a, b) == IF RLeq(a, b) THEN a ELSE b
RMax(a, b) == IF RLeq(a, b) THEN b ELSE a
RMul(a, b) == Rat(a.n * b.n, a.d * b.d)

----------------------------------------------------------------------------
(* The StockData table.  Dates are day numbers.  The close of a ticker     *)
(* follows one slope up to the turn day and another one after it; MSFT     *)
(* trades above AAPL and has no bar on the gap day.                        *)

TurnDay == 52
Markets ==
    [base : {120}, before : {-1, 0, 1}, after : {-3, 1, 3},
     volume : {"flat", "spike", "thin"}, gap : {0, MaxDay - 4}]

NoMarket == [base |-> 0, before |-> 0, after |-> 0, volume |-> "none", gap |-> 0]

HasBar(m, ticker, date) ==
    /\ ticker \in Tickers
    /\ date >= 1 /\ date <= MaxDay
    /\ ~(ticker = "MSFT" /\ date = m.gap)

Close(m, ticker, date) ==
    m.base + m.before * Min(date, TurnDay) + m.after * Max(0, date - TurnDay)
      + (IF ticker = "MSFT" THEN 20 ELSE 0)

Volume(m, ticker, date) ==
    CASE m.volume = "thin" -> 60000
      [] m.volume = "spike" /\ date % 5 = 0 -> 600000
      [] OTHER -> 200000

Bar(m, ticker, date) ==
    [ticker |-> ticker, date |-> date, close |-> Close(m, ticker, date),
     volume |-> Volume(m, ticker, date)]

\* prisma.stockData.findMany({ where: { ticker, date: { gte: start, lte: end } },
\*                             orderBy: { date: 'asc' } })
findManyBars(m, ticker, start, end) ==
    SelectSeq([k \in 1 .. Max(0, end - start + 1) |-> Bar(m, ticker, start + k - 1)],
              LAMBDA b : HasBar(m, ticker, b.date))

\* BacktestEngine.getTickerHistory: start.setDate(start.getDate() - days)
getTickerHistory(m, ticker, endDate, days) ==
    findManyBars(m, ticker, endDate - days, endDate)

----------------------------------------------------------------------------
(* Technical indicators and MovingAverageStrategy.analyze *)

\* createConservativeConfig / createDefaultConfig / createAggressiveConfig
parameters ==
    [st \in Strategies |->
        CASE st = "conservative" ->
                [fastPeriod |-> 50, slowPeriod |-> 200, minVolume |-> 200000]
          [] st = "standard" ->
                [fastPeriod |-> 20, slowPeriod |-> 50, minVolume |-> 100000]
          [] st = "aggressive" ->
                [fastPeriod |-> 10, slowPeriod |-> 30, minVolume |-> 50000]]

\* prices.slice(from - 1, to).reduce((acc, price) => acc + price, 0)
RECURSIVE SliceSum(_, _, _)
SliceSum(prices, from, to) ==
    IF from > to THEN 0 ELSE prices[to] + SliceSum(prices, from, to - 1)

\* simpleMovingAverage for prices.length >= period: one value per window,
\* prices.length - period + 1 values, each the fraction sum / period.
simpleMovingAverage(prices, period) ==
    [i \in 1 .. (Len(prices) - period + 1) |->
        [n |-> SliceSum(prices, i, i + period - 1), d |-> period]]

\* Negation of the guard of movingAverageCrossover:
\* if (fastMA.length !== slowMA.length || fastMA.length < lookback + 1) return no crossover
seriesComparable(fastMA, slowMA, lookback) ==
    Len(fastMA) = Len(slowMA) /\ Len(fastMA) >= lookback + 1

movingAverageCrossover(fastMA, slowMA, lookback) ==
    IF ~seriesComparable(fastMA, slowMA, lookback)
    THEN [bullishCrossover |-> FALSE, bearishCrossover |-> FALSE]
    ELSE LET currentFast == fastMA[Len(fastMA)]
             currentSlow == slowMA[Len(slowMA)]
             prevFast == fastMA[Len(fastMA) - lookback]
             prevSlow == slowMA[Len(slowMA) - lookback]
         IN [bullishCrossover |-> RLeq(prevFast, prevSlow) /\ RLess(currentSlow, currentFast),
             bearishCrossover |-> RLeq(prevSlow, prevFast) /\ RLess(currentFast, currentSlow)]

\* The signal returned by the catch block of analyze
AnalysisFailed == [action |-> "HOLD", confidence |-> Rat(0, 1), reason |-> "Analysis failed"]

\* Faulty variant: a position is assumed whatever the caller passed.
alwaysHolding(currentPosition) == TRUE

\* The test `currentPosition > 0` that guards both SELL signals
holding(currentPosition) == currentPosition > 0

\* MovingAverageStrategy.analyze.  simpleMovingAverage throws on a history
\* shorter than the period and getLatestPrice on an empty one; analyze
\* catches both.
analyze(st, marketData, currentPosition) ==
    LET fastPeriod == parameters[st].fastPeriod
        slowPeriod == parameters[st].slowPeriod
        minVolume == parameters[st].minVolume
        count == Len(marketData)
    IN IF count = 0 \/ count < fastPeriod \/ count < slowPeriod
       THEN AnalysisFailed
       ELSE
       LET closingPrices == [k \in 1 .. count |-> marketData[k].close]
           volumes == [k \in 1 .. count |-> marketData[k].volume]
           currentPrice == closingPrices[count]
           currentVolume == volumes[count]
           fastMA == simpleMovingAverage(closingPrices, fastPeriod)
           slowMA == simpleMovingAverage(closingPrices, slowPeriod)
           crossover == movingAverageCrossover(fastMA, slowMA, 1)
           currentFastMA == fastMA[count - fastPeriod + 1]
           currentSlowMA == slowMA[count - slowPeriod + 1]
           \* trendStrength = |fastMA - slowMA| / currentPrice * 100
           trendStrength ==
               Rat(100 * Abs(currentFastMA.n * currentSlowMA.d
                               - currentSlowMA.n * currentFastMA.d),
                   currentFastMA.d * currentSlowMA.d * currentPrice)
           \* Math.min(trendStrength / 2, 0.8)
           base == RMin(Rat(trendStrength.n, 2 * trendStrength.d), Rat(8, 10))
           \* confidence *= Math.min(currentVolume / avgVolume, 1.5)
           boosted ==
               IF count >= 10
               THEN RMul(base, RMin(Rat(10 * currentVolume,
                                        SliceSum(volumes, count - 9, count)),
                                    Rat(15, 10)))
               ELSE base
           strongTrend == RLess(Rat(2, 1), trendStrength)
           decided ==
               IF crossover.bullishCrossover
               THEN [action |-> "BUY", confidence |-> RMax(boosted, Rat(6, 10)),
                     reason |-> "Bullish crossover detected (Golden Cross)"]
               ELSE IF crossover.bearishCrossover
               THEN (IF holding(currentPosition)
                     THEN [action |-> "SELL", confidence |-> RMax(boosted, Rat(6, 10)),
                           reason |-> "Bearish crossover detected (Death Cross)"]
                     ELSE [action |-> "HOLD", confidence |-> boosted,
                           reason |-> "Bearish crossover detected but no position to sell"])
               ELSE IF RLess(currentSlowMA, currentFastMA)
               THEN (IF currentPosition = 0 /\ strongTrend
                     THEN [action |-> "BUY", confidence |-> RMul(boosted, Rat(7, 10)),
                           reason |-> "Strong uptrend continuation"]
                     ELSE [action |-> "HOLD", confidence |-> boosted,
                           reason |-> "In uptrend - holding current position"])
               ELSE IF RLess(currentFastMA, currentSlowMA)
               THEN (IF holding(currentPosition) /\ strongTrend
                     THEN [action |-> "SELL", confidence |-> RMul(boosted, Rat(6, 10)),
                           reason |-> "Strong downtrend - exit position"]
                     ELSE [action |-> "HOLD", confidence |-> boosted,
                           reason |-> "In downtrend - avoiding new positions"])
               ELSE [action |-> "HOLD", confidence |-> boosted, reason |-> ""]
       IN IF currentVolume < minVolume
          THEN [action |-> "HOLD", confidence |-> Rat(0, 1),
                reason |-> "Volume below minimum threshold"]
          ELSE [decided EXCEPT !.confidence = RMax(Rat(0, 1), RMin(Rat(1, 1), @))]

NoAnalysis ==
    [strategy |-> "none", ticker |-> "", date |-> 0, currentPosition |-> 0,
     signal |-> [action |-> "NONE", confidence |-> Rat(0, 1), reason |-> ""]]

AnalysisIdle ==
    /\ market = NoMarket
    /\ analysis = NoAnalysis

----------------------------------------------------------------------------
(* BacktestEngine.  Closes are whole dollars; cash, values and trade        *)
(* prices are in thousandths of a dollar (Milli), so that the slippage of   *)
(* one per mille is exact.                                                  *)

Milli == 1000
minHistory == 50
historyDays == 200

\* Faulty variant: newest date first.
DateAfter(a, b) == a > b

\* The order of Array.prototype.sort() on ISO date strings
DateBefore(a, b) == a < b

\* [...new Set(dates)].sort()
RECURSIVE SortDates(_)
SortDates(S) ==
    IF S = {} THEN <<>>
    ELSE LET first == CHOOSE d \in S : \A e \in S \ {d} : DateBefore(d, e)
         IN <<first>> \o SortDates(S \ {first})

\* The order in which findMany returns rows of the same date (orderBy names
\* the date only).
RowOrders == {"asc", "desc"}

TickersInRowOrder(tickers, rowOrder) ==
    IF rowOrder = "asc" THEN tickers
    ELSE [k \in 1 .. Len(tickers) |-> tickers[Len(tickers) + 1 - k]]

\* The rows of one date as getHistoricalData returned them
RowsOfDate(m, tickers, rowOrder, date) ==
    LET ordered == TickersInRowOrder(tickers, rowOrder)
    IN SelectSeq([k \in 1 .. Len(ordered) |-> Bar(m, ordered[k], date)],
                 LAMBDA b : HasBar(m, b.ticker, date))

\* BacktestEngine.getHistoricalData: the dates of its rows
HistoricalDates(m, tickers, startDate, endDate) ==
    {date \in startDate .. endDate :
        \E k \in 1 .. Len(tickers) : HasBar(m, tickers[k], date)}

NoRow == [ticker |-> "", date |-> 0, close |-> 0, volume |-> 0]

\* Faulty variant: the first row of the day, whatever its ticker.
findFirstRow(dayData, ticker) == IF Len(dayData) = 0 THEN NoRow ELSE dayData[1]

\* dayData.find(d => d.ticker === ticker); NoRow stands for undefined.
findRow(dayData, ticker) ==
    LET matching == SelectSeq(dayData, LAMBDA b : b.ticker = ticker)
    IN IF Len(matching) = 0 THEN NoRow ELSE matching[1]

NoPosition == [quantity |-> 0, entryPrice |-> 0, entryDate |-> 0, currentPrice |-> 0]

NoTrade ==
    [date |-> 0, ticker |-> "", action |-> "NONE", quantity |-> 0, price |-> 0,
     commission |-> 0, totalValue |-> 0, portfolioValue |-> 0, cash |-> 0,
     confidence |-> Rat(0, 1)]

\* Exact floor(a * n / d) for n >= 0, d > 0, by halving a, so that no
\* intermediate product leaves the integer range: [q, r] with a * n = q * d + r
\* and 0 <= r < d.
RECURSIVE MulDiv(_, _, _)
MulDiv(a, n, d) ==
    IF a = 0 THEN [q |-> 0, r |-> 0]
    ELSE IF a < 0
    THEN LET m == MulDiv(0 - a, n, d)
         IN IF m.r = 0 THEN [q |-> 0 - m.q, r |-> 0]
            ELSE [q |-> 0 - m.q - 1, r |-> d - m.r]
    ELSE LET half == MulDiv(a \div 2, n, d)
             rest == 2 * half.r + (a % 2) * (n % d)
         IN [q |-> 2 * half.q + (a % 2) * (n \div d) + rest \div d, r |-> rest % d]

\* Faulty variant: every trade executes at the close.
priceAtClose(action, price, slippage) == price * Milli

\* price * (1 + config.slippage) for a BUY, price * (1 - config.slippage) for
\* a SELL, in thousandths of a dollar; slippage is in thousandths.
slippageAdjustedPrice(action, price, slippage) ==
    IF action = "BUY" THEN price * (Milli + slippage) ELSE price * (Milli - slippage)

\* BacktestEngine.executeTrade; NoTrade stands for null.  price is the close
\* in dollars; the trade carries the confidence that its reason text quotes.
executeTrade(signal, ticker, price, date, availableCash, portfolioValue, held, cfg) ==
    IF signal.action = "BUY"
    THEN LET \* floor(min(portfolioValue * 0.1 * confidence, availableCash * 0.95) / price)
             targetQuantity ==
                 Min(MulDiv(portfolioValue, signal.confidence.n, signal.confidence.d).q
                        \div (10 * price * Milli),
                     (availableCash * 95) \div (100 * price * Milli))
             slippageAdjusted == slippageAdjustedPrice("BUY", price, cfg.slippage)
             totalCost == targetQuantity * slippageAdjusted + cfg.commission * Milli
         IN IF targetQuantity <= 0 \/ totalCost > availableCash
            THEN NoTrade
            ELSE [date |-> date, ticker |-> ticker, action |-> "BUY",
                  quantity |-> targetQuantity, price |-> slippageAdjusted,
                  commission |-> cfg.commission * Milli, totalValue |-> totalCost,
                  portfolioValue |-> portfolioValue,
                  cash |-> availableCash - totalCost,
                  confidence |-> signal.confidence]
    ELSE IF signal.action = "SELL" /\ held[ticker] # NoPosition
    THEN LET position == held[ticker]
             slippageAdjusted == slippageAdjustedPrice("SELL", price, cfg.slippage)
             tradeValue == position.quantity * slippageAdjusted
             netProceeds == tradeValue - cfg.commission * Milli
         IN [date |-> date, ticker |-> ticker, action |-> "SELL",
             quantity |-> position.quantity, price |-> slippageAdjusted,
             commission |-> cfg.commission * Milli, totalValue |-> tradeValue,
             portfolioValue |-> portfolioValue,
             cash |-> availableCash + netProceeds,
             confidence |-> signal.confidence]
    ELSE NoTrade

\* totalPositionValue: the held tickers that have a row in dayData, at its close
totalPositionValue(held, dayData) ==
    SumSet({t \in Tickers : held[t] # NoPosition /\ findRow(dayData, t) # NoRow},
           [t \in Tickers |-> held[t].quantity * findRow(dayData, t).close * Milli])

\* positions[ticker].currentPrice = Number(tickerData.close) for the held
\* tickers that have a row in dayData
markPositions(held, dayData) ==
    [t \in Tickers |->
        IF held[t] # NoPosition /\ findRow(dayData, t) # NoRow
        THEN [held[t] EXCEPT !.currentPrice = findRow(dayData, t).close * Milli]
        ELSE held[t]]

\* The body of `if (trade)`: the trade is logged, cash is taken from it, a
\* BUY sets positions[ticker] and a SELL deletes it.
ApplyTrade(trade, ticker, dateStr, state) ==
    IF trade = NoTrade THEN state
    ELSE [cash |-> trade.cash,
          positions |->
              IF trade.action = "BUY"
              THEN [state.positions EXCEPT ![ticker] =
                       [quantity |-> trade.quantity, entryPrice |-> trade.price,
                        entryDate |-> dateStr, currentPrice |-> trade.price]]
              ELSE [state.positions EXCEPT ![ticker] = NoPosition],
          trades |-> Append(state.trades, trade)]

\* The body of `if (signal.action !== 'HOLD')`
ApplySignal(cfg, dateStr, portfolioValue, tickerData, signal, state) ==
    IF signal.action = "HOLD" THEN state
    ELSE ApplyTrade(executeTrade(signal, tickerData.ticker, tickerData.close, dateStr,
                                 state.cash, portfolioValue, state.positions, cfg),
                    tickerData.ticker, dateStr, state)

\* One pass of `for (const ticker of tickers)`: the ticker is skipped without
\* a row of the day or with fewer than 50 rows of history; analyze is called
\* without a current position, so the parameter takes its default 0.
ProcessBacktestTicker(cfg, dateStr, portfolioValue, tickerData, historicalPrices, state) ==
    IF tickerData = NoRow \/ Len(historicalPrices) < minHistory THEN state
    ELSE ApplySignal(cfg, dateStr, portfolioValue, tickerData,
                     analyze(cfg.strategy, historicalPrices, 0), state)

\* The loop `for (const ticker of tickers)` of one day, from the k-th ticker;
\* state holds cash, positions and trades.
RECURSIVE TickerLoop(_, _, _, _, _, _, _)
TickerLoop(m, cfg, dayData, dateStr, portfolioValue, k, state) ==
    IF k > Len(cfg.tickers) THEN state
    ELSE TickerLoop(m, cfg, dayData, dateStr, portfolioValue, k + 1,
                    ProcessBacktestTicker(cfg, dateStr, portfolioValue,
                        findRow(dayData, cfg.tickers[k]),
                        getTickerHistory(m, cfg.tickers[k], dateStr, historyDays),
                        state))

\* The equity point pushed at the end of a day; the three ratios are the
\* exact fractions n / d.
EquityPoint(dateStr, portfolioValue, cash, held, previousPortfolioValue, initialCapital, peakValue) ==
    [date |-> dateStr, portfolioValue |-> portfolioValue, cash |-> cash,
     positions |-> [t \in Tickers |-> held[t].quantity],
     dailyReturn |-> [n |-> portfolioValue - previousPortfolioValue,
                      d |-> previousPortfolioValue],
     cumulativeReturn |-> [n |-> portfolioValue - initialCapital, d |-> initialCapital],
     drawdown |-> [n |-> peakValue - portfolioValue, d |-> peakValue]]

\* Math.max(...equity.map(point => point.drawdown)), as a fraction; FracLeq
\* compares an / ad <= bn / bd exactly (non-negative fractions) by their
\* integer parts and the reciprocals of the remainders.
RECURSIVE FracLeq(_, _, _, _)
FracLeq(an, ad, bn, bd) ==
    IF an \div ad # bn \div bd THEN an \div ad < bn \div bd
    ELSE IF an % ad = 0 THEN TRUE
    ELSE IF bn % bd = 0 THEN FALSE
    ELSE FracLeq(bd, bn % bd, ad, an % ad)

RECURSIVE MaxDrawdown(_)
MaxDrawdown(equity) ==
    IF Len(equity) = 1 THEN equity[1].drawdown
    ELSE LET rest == MaxDrawdown(Tail(equity))
         IN IF FracLeq(equity[1].drawdown.n, equity[1].drawdown.d, rest.n, rest.d)
            THEN rest ELSE equity[1].drawdown

\* BacktestEngine.calculatePerformanceMetrics (equity is not empty)
calculatePerformanceMetrics(equity, trades) ==
    [totalReturn |-> equity[Len(equity)].cumulativeReturn,
     maxDrawdown |-> MaxDrawdown(equity),
     totalTrades |-> Len(trades) \div 2]

NoPerformance ==
    [totalReturn |-> [n |-> 0, d |-> 1], maxDrawdown |-> [n |-> 0, d |-> 1],
     totalTrades |-> 0]

\* benchmarkTicker "" stands for undefined
NoConfig ==
    [strategy |-> "none", tickers |-> <<>>, startDate |-> 0, endDate |-> 0,
     initialCapital |-> 0, commission |-> 0, slippage |-> 0, benchmarkTicker |-> ""]

\* The state of a runBacktest call that has not passed its validation yet
NewBacktest ==
    [status |-> "INITIALIZING", error |-> "", rowOrder |-> "none", uniqueDates |-> <<>>,
     next |-> 1, cash |-> 0, portfolioValue |-> 0,
     positions |-> [t \in Tickers |-> NoPosition], trades |-> <<>>, equity |-> <<>>,
     previousPortfolioValue |-> 0, peakValue |-> 0, performance |-> NoPerformance]

NoBacktest == [NewBacktest EXCEPT !.status = "NONE"]

NoFirstRun == [status |-> "NONE", rowOrder |-> "none", trades |-> <<>>, equity |-> <<>>]

BacktestIdle ==
    /\ config = NoConfig
    /\ bt = NoBacktest
    /\ firstRun = NoFirstRun

----------------------------------------------------------------------------
(* AutoTradingEngine.  Confidences are in hundredths (Scale); a result      *)
(* keeps the day of its timestamp and the number of the processTicker call  *)
(* that returned it.                                                        *)

NoAutoConfig ==
    [fundId |-> 0, tickers |-> <<>>, maxTradesPerDay |-> 0, minConfidenceThreshold |-> 0,
     cooldownMinutes |-> 0, maxPositionValue |-> 0, executionMode |-> "NONE"]

\* AutoTradingEngine.validateConfig: the error list
validateConfig(cfg) ==
    (IF ~FundExists(cfg.fundId) THEN <<"fund">> ELSE <<>>)
    \o (IF Len(cfg.tickers) = 0 THEN <<"tickers">> ELSE <<>>)
    \o (IF cfg.maxTradesPerDay < 1 \/ cfg.maxTradesPerDay > 1000
        THEN <<"maxTradesPerDay">> ELSE <<>>)
    \o (IF cfg.minConfidenceThreshold < 10 \/ cfg.minConfidenceThreshold > Scale
        THEN <<"minConfidenceThreshold">> ELSE <<>>)
    \o (IF cfg.cooldownMinutes < 1 \/ cfg.cooldownMinutes > 1440
        THEN <<"cooldownMinutes">> ELSE <<>>)
    \o (IF cfg.maxPositionValue < 1000 THEN <<"maxPositionValue">> ELSE <<>>)

\* No session in the sessions map.  timers counts the live setInterval
\* timers of the session; interval is the entry of the intervals map: "none",
\* or a handle that is "live" or "cleared".
NoSession ==
    [status |-> "NONE", fundId |-> 0, config |-> NoAutoConfig, results |-> <<>>,
     totalTrades |-> 0, successfulTrades |-> 0, timers |-> 0, interval |-> "none",
     endTime |-> NULL]

\* The session startAutoTrading stores, with its interval timer
NewSession(cfg) ==
    [status |-> "RUNNING", fundId |-> cfg.fundId, config |-> cfg, results |-> <<>>,
     totalTrades |-> 0, successfulTrades |-> 0, timers |-> 1, interval |-> "live",
     endTime |-> NULL]

\* clearInterval(this.intervals.get(sessionId)) when the map has an entry
clearMappedInterval(s) ==
    [s EXCEPT !.timers = IF s.interval = "live" THEN @ - 1 ELSE @,
              !.interval = IF @ = "none" THEN "none" ELSE "cleared"]

\* Faulty variant: the interval is left running.
pauseKeepsInterval(s) == [s EXCEPT !.status = "PAUSED"]

\* pauseAutoTrading: whatever the status is, the mapped interval is cleared
\* (its map entry stays) and the session is PAUSED.
pauseAutoTrading(s) == [clearMappedInterval(s) EXCEPT !.status = "PAUSED"]

\* resumeAutoTrading of a PAUSED session: a new interval is set, the map
\* entry is replaced and the session is RUNNING.
resumeAutoTrading(s) ==
    [s EXCEPT !.timers = @ + 1, !.interval = "live", !.status = "RUNNING"]

\* stopAutoTrading: the mapped interval is cleared and its entry deleted
stopAutoTrading(s, date) ==
    [clearMappedInterval(s) EXCEPT !.interval = "none", !.status = "STOPPED",
                                   !.endTime = date]

\* handleTradingError: session.status = 'ERROR', then pauseAutoTrading
handleTradingError(s) == pauseAutoTrading([s EXCEPT !.status = "ERROR"])

\* The HTTP status PositionController answers a live order with: the
\* quantity is validated, a BUY needs the cash and a SELL the shares.  lots
\* are the OPEN lots of the fund; every answer goes through res, none throws.
liveOrderStatus(action, quantity, price, lots) ==
    LET invested == SumSeq([k \in 1 .. Len(lots) |-> lots[k].quantity * lots[k].entryPrice])
        availableShares == SumSeq([k \in 1 .. Len(lots) |-> lots[k].quantity])
    IN IF quantity <= 0 THEN 400
       ELSE IF action = "BUY"
       THEN (IF InsufficientFunds(RiskCapital - invested, quantity * price)
             THEN 400 ELSE 201)
       ELSE (IF InsufficientShares(availableShares, quantity) THEN 400 ELSE 200)

\* executeLiveTrade: mockRes.status(code).json(data) only returns data, so
\* every answer of the controller ends in `return { success: true }`.
executeLiveTrade(status) == TRUE

NoStrategyAnalysis == [consensus |-> "NONE", avgConfidence |-> 0, recommendedSize |-> 0]

\* No executeTradingCycle call in progress; count is the number of calls begun.
NoCycle ==
    [pc |-> "idle", k |-> 0, call |-> 0, analysis |-> NoStrategyAnalysis, price |-> NULL,
     count |-> 0]

\* errors counts the cycles that ended in the catch of the timer callback
NoAudit == [calls |-> 0, validations |-> <<>>, executions |-> <<>>, errors |-> 0]

\* session.results.filter(result => day of result.timestamp === today).length
todayTrades(results, day) ==
    Cardinality({k \in 1 .. Len(results) : results[k].day = day})

\* The errorResult pushed by the catch block of the ticker loop
errorResult(ticker, call, day) ==
    [success |-> FALSE, ticker |-> ticker, action |-> "HOLD", quantity |-> 0, price |-> 0,
     strategy |-> "ERROR", confidence |-> 0, day |-> day, call |-> call]

\* The result processTicker returns when the risk validation failed
blockedResult(ticker, call, strategyAnalysis, price, day) ==
    [success |-> FALSE, ticker |-> ticker, action |-> strategyAnalysis.consensus,
     quantity |-> strategyAnalysis.recommendedSize, price |-> price,
     strategy |-> "RISK_BLOCKED", confidence |-> strategyAnalysis.avgConfidence,
     day |-> day, call |-> call]

\* The result processTicker returns after the execution
tradeResult(success, ticker, call, strategyAnalysis, price, day) ==
    [success |-> success, ticker |-> ticker, action |-> strategyAnalysis.consensus,
     quantity |-> strategyAnalysis.recommendedSize, price |-> price,
     strategy |-> "CONSENSUS", confidence |-> strategyAnalysis.avgConfidence,
     day |-> day, call |-> call]

\* session.results.push(tradeResult); successfulTrades++ on success; totalTrades++
PushResult(s, result) ==
    [s EXCEPT !.results = Append(@, result),
              !.successfulTrades = IF result.success THEN @ + 1 ELSE @,
              !.totalTrades = @ + 1]

\* session.results.push(errorResult): the counters are left alone
PushError(s, result) == [s EXCEPT !.results = Append(@, result)]

\* The ticker loop moves on; after the last ticker the cycle is over.
NextTicker(c, tickers) ==
    IF c.k >= Len(tickers) THEN [NoCycle EXCEPT !.count = c.count]
    ELSE [c EXCEPT !.pc = "ticker", !.k = @ + 1, !.call = 0,
                   !.analysis = NoStrategyAnalysis, !.price = NULL]

\* Faulty variant: a failed validation does not stop the call.
RiskBlocksNever(riskValidation) == FALSE

\* if (!riskValidation.isValid) return the RISK_BLOCKED result
RiskBlocks(riskValidation) == ~riskValidation.isValid

AutoIdle ==
    /\ session = NoSession
    /\ cycle = NoCycle
    /\ audit = NoAudit
    /\ today = 0

----------------------------------------------------------------------------
(* Requests served one at a time: each handler runs to its response.       *)
(* now is the last value read from the clock; a handler that reaches a     *)
(* `new Date()` reads a later value than every earlier handler did.        *)

\* The Position table is empty and no request was served.
LedgerStart ==
    /\ positions = <<>>
    /\ now = 0
    /\ res = NoResponse
    /\ soldPositions = <<>>
    /\ bought = [t \in Tickers |-> 0]
    /\ returned = [t \in Tickers |-> 0]
    /\ phase = [t \in Tickers |-> "none"]

Init ==
    /\ LedgerStart
    /\ req = <<>>
    /\ SizingIdle
    /\ EngineIdle
    /\ RiskIdle
    /\ AnalysisIdle
    /\ BacktestIdle
    /\ AutoIdle

\* The body of buyStock when `new Date()` evaluates to date.
BuyBody(ticker, quantity, currentPrice, date) ==
    LET tradeValue == currentPrice * quantity
    IN IF quantity = 0
       THEN /\ res' = ErrorResponse("BUY", 400, "fundId, ticker, and quantity are required")
            /\ UNCHANGED <<positions, bought, phase>>
       ELSE IF quantity <= 0
       THEN /\ res' = ErrorResponse("BUY", 400, "Quantity must be a positive integer")
            /\ UNCHANGED <<positions, bought, phase>>
       ELSE IF InsufficientFunds(calculateAvailableCapital(positions), tradeValue)
       THEN /\ res' = InsufficientResponse("BUY", "Insufficient funds", ticker,
                                           calculateAvailableCapital(positions), tradeValue)
            /\ UNCHANGED <<positions, bought, phase>>
       ELSE IF UniqueViolation(positions, ticker, date)
       THEN /\ res' = ErrorResponse("BUY", 500, "Internal server error")
            /\ UNCHANGED <<positions, bought, phase>>
       ELSE /\ positions' = Append(positions,
                                   NewOpenLot(positions, ticker, quantity, currentPrice, date))
            /\ res' = BuyResponse(ticker, quantity, currentPrice)
            /\ bought' = [bought EXCEPT ![ticker] = @ + quantity]
            /\ phase' = [phase EXCEPT ![ticker] = PhaseAfterBuy(@)]

\* POST /api/positions/buy; currentPrice is the latest StockData close.
buyStock(ticker, quantity, currentPrice) ==
    /\ now < MaxTime
    /\ BuyBody(ticker, quantity, currentPrice, now + 1)
    /\ now' = IF positions' # positions THEN now + 1 ELSE now
    /\ UNCHANGED <<soldPositions, returned, req>>
    /\ UNCHANGED notLedger

\* POST /api/positions/sell
sellStock(ticker, quantity, price) ==
    /\ now < MaxTime
    /\ LET date == now + 1
           availableShares == getAvailableShares(positions, ticker)
           fifo == executeFIFOSell(positions, ticker, quantity, price, date)
       IN IF quantity = 0 \/ price = 0
          THEN /\ res' = ErrorResponse("SELL", 400,
                                       "fundId, ticker, quantity, and price are required")
               /\ UNCHANGED <<positions, now, soldPositions, returned, phase>>
          ELSE IF quantity <= 0
          THEN /\ res' = ErrorResponse("SELL", 400, "Quantity must be a positive integer")
               /\ UNCHANGED <<positions, now, soldPositions, returned, phase>>
          ELSE IF InsufficientShares(availableShares, quantity)
          THEN /\ res' = InsufficientResponse("SELL", "Insufficient shares to sell", ticker,
                                              availableShares, quantity)
               /\ UNCHANGED <<positions, now, soldPositions, returned, phase>>
          ELSE IF fifo.threw
          THEN /\ positions' = fifo.db
               /\ now' = date
               /\ res' = ErrorResponse("SELL", 500, "Internal server error")
               /\ UNCHANGED <<soldPositions, returned, phase>>
          ELSE /\ positions' = fifo.db
               /\ now' = date
               /\ soldPositions' = fifo.soldPositions
               /\ res' = SellResponse(ticker, quantity, price, fifo.soldPositions)
               /\ returned' = [returned EXCEPT ![ticker] = @ + SoldQuantity(fifo.soldPositions)]
               /\ phase' = [phase EXCEPT ![ticker] = PhaseAfterSell(@)]
    /\ UNCHANGED <<bought, req>>
    /\ UNCHANGED notLedger

Buy == \E t \in Tickers, q \in Quantities, p \in Prices : buyStock(t, q, p)

Sell == \E t \in Tickers, q \in Quantities, p \in Prices \cup {0} : sellStock(t, q, p)

Next == Buy \/ Sell

Spec == Init /\ [][Next]_vars

----------------------------------------------------------------------------
(* Sell requests in flight together.  sellStock and executeFIFOSell are    *)
(* async functions: every `await prisma...` is a point where the event     *)
(* loop may run another request.  No transaction or lock spans them.       *)
(* The requests are for one (fund, ticker).  A `new Date()` of a request   *)
(* in flight reads the last value read or a later one.                     *)

ReqIds == {1, 2}
ConcTicker == "AAPL"
DateReads == {d \in {now, now + 1} : d >= 1 /\ d <= MaxTime}

IdleReq ==
    [pc |-> "idle", ticker |-> "", quantity |-> 0, price |-> 0, availableShares |-> 0,
     list |-> <<>>, i |-> 0, remainingToSell |-> 0, sold |-> <<>>, status |-> 0]

InitConc ==
    /\ LedgerStart
    /\ req = [r \in ReqIds |-> IdleReq]
    /\ SizingIdle
    /\ EngineIdle
    /\ RiskIdle
    /\ AnalysisIdle
    /\ BacktestIdle
    /\ AutoIdle

\* A buy request served before the sell requests arrive.
ConcBuy ==
    \E q \in 1 .. MaxQty, p \in Prices :
       /\ \A r \in ReqIds : req[r].pc = "idle"
       /\ now < MaxTime
       /\ BuyBody(ConcTicker, q, p, now + 1)
       /\ now' = IF positions' # positions THEN now + 1 ELSE now
       /\ UNCHANGED <<soldPositions, returned, req>>
       /\ UNCHANGED notLedger

\* sellStock up to `await prisma.fund.findFirst` (valid body, fund found).
StartSell(r) ==
    \E q \in 1 .. MaxQty, p \in Prices :
       /\ req[r].pc = "idle"
       /\ req' = [req EXCEPT ![r] = [IdleReq EXCEPT !.pc = "check", !.ticker = ConcTicker,
                                                    !.quantity = q, !.price = p]]
       /\ UNCHANGED ledgerVars
       /\ UNCHANGED notLedger

\* const availableShares = await getAvailableShares(...); if (availableShares < quantity) ...
CheckShares(r) ==
    LET rq == req[r]
        availableShares == getAvailableShares(positions, rq.ticker)
    IN /\ rq.pc = "check"
       /\ IF InsufficientShares(availableShares, rq.quantity)
          THEN /\ req' = [req EXCEPT ![r].pc = "done", ![r].status = 400,
                                     ![r].availableShares = availableShares]
               /\ res' = InsufficientResponse("SELL", "Insufficient shares to sell",
                                              rq.ticker, availableShares, rq.quantity)
          ELSE /\ req' = [req EXCEPT ![r].pc = "find",
                                     ![r].availableShares = availableShares]
               /\ UNCHANGED res
       /\ UNCHANGED <<positions, now, soldPositions, bought, returned, phase>>
       /\ UNCHANGED notLedger

\* sellStock after executeFIFOSell returned: the response.
Finish(r, sold) ==
    /\ res' = SellResponse(req[r].ticker, req[r].quantity, req[r].price, sold)
    /\ soldPositions' = sold
    /\ returned' = [returned EXCEPT ![req[r].ticker] = @ + SoldQuantity(sold)]
    /\ phase' = [phase EXCEPT ![req[r].ticker] = PhaseAfterSell(@)]

\* const positions = await prisma.position.findMany(...) in executeFIFOSell
FindMany(r) ==
    LET rq == req[r]
        list == findManyActiveAsc(positions, rq.ticker)
    IN /\ rq.pc = "find"
       /\ IF Len(list) = 0
          THEN /\ req' = [req EXCEPT ![r].pc = "done", ![r].status = 200]
               /\ Finish(r, <<>>)
          ELSE /\ req' = [req EXCEPT ![r].pc = "loop", ![r].list = list, ![r].i = 1,
                                     ![r].remainingToSell = rq.quantity]
               /\ UNCHANGED <<res, soldPositions, returned, phase>>
       /\ UNCHANGED <<positions, now, bought>>
       /\ UNCHANGED notLedger

\* One iteration of the for-loop up to its first `await prisma.position.update`;
\* position is the row as read by findMany.
LoopStep(r) ==
    LET rq == req[r]
        position == rq.list[rq.i]
    IN /\ rq.pc = "loop"
       /\ IF SellsEntirePosition(position, rq.remainingToSell)
          THEN LET sold == Append(rq.sold, SoldEntry(position, position.quantity))
                   remaining == rq.remainingToSell - position.quantity
               IN /\ positions' = UpdateClose(positions, position.id, rq.price, now)
                  /\ UNCHANGED now
                  /\ IF rq.i + 1 > Len(rq.list) \/ remaining <= 0
                     THEN /\ req' = [req EXCEPT ![r].pc = "done", ![r].status = 200,
                                                ![r].sold = sold,
                                                ![r].remainingToSell = remaining]
                          /\ Finish(r, sold)
                     ELSE /\ req' = [req EXCEPT ![r].i = rq.i + 1, ![r].sold = sold,
                                                ![r].remainingToSell = remaining]
                          /\ UNCHANGED <<res, soldPositions, returned, phase>>
          ELSE /\ positions' = UpdateQuantity(positions, position.id,
                                              quantityToLeave(position, rq.remainingToSell))
               /\ req' = [req EXCEPT ![r].pc = "create"]
               /\ UNCHANGED <<now, res, soldPositions, returned, phase>>
       /\ UNCHANGED bought
       /\ UNCHANGED notLedger

\* await prisma.position.create for the sold portion, then the loop ends.
CreateStep(r) ==
    LET rq == req[r]
        position == rq.list[rq.i]
        quantityToTake == rq.remainingToSell
        sold == Append(rq.sold, SoldEntry(position, quantityToTake))
    IN /\ rq.pc = "create"
       /\ \E date \in DateReads :
            /\ now' = date
            /\ IF UniqueViolation(positions, rq.ticker, date)
               THEN /\ req' = [req EXCEPT ![r].pc = "done", ![r].status = 500]
                    /\ res' = ErrorResponse("SELL", 500, "Internal server error")
                    /\ UNCHANGED <<positions, soldPositions, returned, phase>>
               ELSE /\ positions' = Append(positions,
                                           NewClosedLot(positions, position, quantityToTake,
                                                        rq.price, date))
                    /\ req' = [req EXCEPT ![r].pc = "done", ![r].status = 200,
                                          ![r].sold = sold, ![r].remainingToSell = 0]
                    /\ Finish(r, sold)
       /\ UNCHANGED bought
       /\ UNCHANGED notLedger

NextConc ==
    \/ ConcBuy
    \/ \E r \in ReqIds : StartSell(r)
    \/ \E r \in ReqIds : CheckShares(r)
    \/ \E r \in ReqIds : FindMany(r)
    \/ \E r \in ReqIds : LoopStep(r)
    \/ \E r \in ReqIds : CreateStep(r)

ConcSpec == InitConc /\ [][NextConc]_vars

----------------------------------------------------------------------------
(* Position sizing on its own *)

\* One call of calculatePositionSize.  The caller passes a fund value and an
\* available capital that are not negative: initialCapital >= 1000 and
\* buyStock never invests more than the initial capital.
SizePosition ==
    \E price \in PricesInCents, c \in Confidences, sig \in Signals, v \in Volatilities,
       f \in FundValues, a \in CashValues :
       /\ params' = [currentPrice |-> price, confidence |-> c, signal |-> sig,
                     volatility |-> v, fundValue |-> f, availableCash |-> a]
       /\ shares' = calculatePositionSize(params')
       /\ UNCHANGED notSizing

InitSizing ==
    /\ LedgerStart
    /\ req = <<>>
    /\ SizingIdle
    /\ EngineIdle
    /\ RiskIdle
    /\ AnalysisIdle
    /\ BacktestIdle
    /\ AutoIdle

NextSizing == SizePosition

SizingSpec == InitSizing /\ [][NextSizing]_vars

----------------------------------------------------------------------------
(* executeAllStrategies: every active strategy is evaluated (the promises  *)
(* run in any order), Promise.all joins them, then the results are         *)
(* aggregated.                                                             *)

RunInputs ==
    [fundValue : {1000}, availableCash : CashValues,
     currentPrice : {100, 333}, volatility : {0, 30}]

\* The fund and the market data are read from the database.
InitEngine ==
    /\ LedgerStart
    /\ req = <<>>
    /\ SizingIdle
    /\ run \in RunInputs
    /\ strategyResults = [st \in Strategies |-> NoResult]
    /\ portfolio = NoPortfolio
    /\ RiskIdle
    /\ AnalysisIdle
    /\ BacktestIdle
    /\ AutoIdle

\* StrategyEngine.executeStrategy for one strategy: analyze returns a signal
\* (action, confidence) or an exception is caught.
executeStrategy(st) ==
    /\ strategyResults[st] = NoResult
    /\ portfolio = NoPortfolio
    /\ \/ \E action \in Signals, c \in Confidences :
            LET signal == [action |-> action, confidence |-> c]
                shouldExecute == shouldExecuteTrade(st, signal)
                positionSize ==
                    calculatePositionSize(
                        [currentPrice |-> run.currentPrice, confidence |-> c,
                         signal |-> action, volatility |-> run.volatility,
                         fundValue |-> run.fundValue,
                         availableCash |-> run.availableCash])
            IN strategyResults' =
                  [strategyResults EXCEPT ![st] =
                      [action |-> action, confidence |-> c,
                       shouldExecute |-> shouldExecute,
                       positionSize |-> IF shouldExecute THEN positionSize ELSE NULL,
                       failed |-> FALSE]]
       \/ strategyResults' = [strategyResults EXCEPT ![st] = FailedResult]
    /\ UNCHANGED <<run, portfolio>>
    /\ UNCHANGED notEngine

\* After `await Promise.all(strategyPromises)`: consensus, average confidence
\* and recommended size.
executeAllStrategies ==
    /\ portfolio = NoPortfolio
    /\ PromiseAll(strategyResults)
    /\ LET list == ResultList(strategyResults)
       IN portfolio' = [consensus |-> calculateConsensus(list),
                        confidenceSum |-> ConfidenceSum(list),
                        count |-> Len(list),
                        recommendedSize |-> calculateRecommendedSize(list)]
    /\ UNCHANGED <<run, strategyResults>>
    /\ UNCHANGED notEngine

NextEngine ==
    \/ \E st \in Strategies : executeStrategy(st)
    \/ executeAllStrategies

EngineSpec == InitEngine /\ [][NextEngine]_vars

----------------------------------------------------------------------------
(* validateTradeRisk on its own *)

RiskQuantities == {-5, 0, 5, 20, 300}
RiskPrices == {0, 10, 30}

\* One call of validateTradeRisk against the fund's OPEN lots.
ValidateTrade ==
    \E fundId \in FundIds, quantity \in RiskQuantities, price \in RiskPrices,
       lots \in RiskLots :
       /\ riskCheck' = [fundId |-> fundId, quantity |-> quantity, price |-> price,
                        lots |-> lots, called |-> TRUE]
       /\ UNCHANGED notRisk

InitRisk ==
    /\ LedgerStart
    /\ req = <<>>
    /\ SizingIdle
    /\ EngineIdle
    /\ RiskIdle
    /\ AnalysisIdle
    /\ BacktestIdle
    /\ AutoIdle

NextRisk == ValidateTrade

RiskSpec == InitRisk /\ [][NextRisk]_vars

----------------------------------------------------------------------------
(* MovingAverageStrategy.analyze on its own *)

CurrentPositions == {0, 5}

InitAnalysis ==
    /\ LedgerStart
    /\ req = <<>>
    /\ SizingIdle
    /\ EngineIdle
    /\ RiskIdle
    /\ market \in Markets
    /\ analysis = NoAnalysis
    /\ BacktestIdle
    /\ AutoIdle

\* One call of analyze on the history of a ticker up to a date.
Analyze ==
    \E st \in Strategies, ticker \in Tickers, date \in 1 .. MaxDay,
       currentPosition \in CurrentPositions :
       /\ analysis = NoAnalysis
       /\ analysis' =
             [strategy |-> st, ticker |-> ticker, date |-> date,
              currentPosition |-> currentPosition,
              signal |-> analyze(st, getTickerHistory(market, ticker, date, historyDays),
                                 currentPosition)]
       /\ UNCHANGED market
       /\ UNCHANGED notAnalysis

NextAnalysis == Analyze

AnalysisSpec == InitAnalysis /\ [][NextAnalysis]_vars

----------------------------------------------------------------------------
(* runBacktest, called twice with the same strategy, config and tickers    *)
(* against the same StockData rows.  The function is async but shares no   *)
(* state with other calls: each pass of its day loop is one step.          *)

BacktestCapital == 10000
DateRanges == {<<MaxDay - 8, MaxDay>>, <<MaxDay, MaxDay - 8>>, <<MaxDay + 5, MaxDay + 9>>}
BenchmarkTickers == {"", "MSFT", "SPY"}
BacktestConfigs ==
    {cfg \in [strategy : {"standard", "aggressive"},
              tickers : {<<"AAPL">>, <<"AAPL", "MSFT">>},
              startDate : {range[1] : range \in DateRanges},
              endDate : {range[2] : range \in DateRanges},
              initialCapital : {BacktestCapital * Milli}, commission : {5},
              slippage : {1}, benchmarkTicker : BenchmarkTickers] :
        /\ <<cfg.startDate, cfg.endDate>> \in DateRanges
        /\ cfg.benchmarkTicker # "" => cfg.strategy = "standard" /\ Len(cfg.tickers) = 1}

InitBacktest ==
    /\ LedgerStart
    /\ req = <<>>
    /\ SizingIdle
    /\ EngineIdle
    /\ RiskIdle
    /\ market \in Markets
    /\ analysis = NoAnalysis
    /\ config \in BacktestConfigs
    /\ bt = NewBacktest
    /\ firstRun = NoFirstRun
    /\ AutoIdle

\* runBacktest up to the day loop: the date range is validated, the rows are
\* read and the locals are initialised.
StartBacktest ==
    /\ bt.status = "INITIALIZING"
    /\ \E rowOrder \in RowOrders :
          LET dates == HistoricalDates(market, config.tickers, config.startDate,
                                       config.endDate)
          IN IF config.startDate >= config.endDate
             THEN bt' = [bt EXCEPT !.status = "FAILED",
                                   !.error = "Start date must be before end date"]
             ELSE IF dates = {}
             THEN bt' = [bt EXCEPT !.status = "FAILED", !.rowOrder = rowOrder,
                                   !.error = "No historical data found for the specified period"]
             ELSE bt' = [bt EXCEPT !.status = "RUNNING", !.rowOrder = rowOrder,
                                   !.uniqueDates = SortDates(dates),
                                   !.cash = config.initialCapital,
                                   !.portfolioValue = config.initialCapital,
                                   !.previousPortfolioValue = config.initialCapital,
                                   !.peakValue = config.initialCapital]
    /\ UNCHANGED <<market, config, firstRun>>
    /\ UNCHANGED notBacktest

\* Faulty variant: the peak follows the portfolio value down.
UpdatePeakToValue(peakValue, portfolioValue) == portfolioValue

\* if (portfolioValue > peakValue) peakValue = portfolioValue
UpdatePeak(peakValue, portfolioValue) ==
    IF portfolioValue > peakValue THEN portfolioValue ELSE peakValue

\* The end of a pass: the positions are valued again, the returns, the peak
\* and the drawdown are computed and the equity point is pushed.
EndOfDay(b, cfg, dateStr, after, portfolioValue) ==
    [b EXCEPT !.next = @ + 1,
              !.cash = after.cash,
              !.positions = after.positions,
              !.trades = after.trades,
              !.portfolioValue = portfolioValue,
              !.peakValue = UpdatePeak(b.peakValue, portfolioValue),
              !.equity = Append(@, EquityPoint(dateStr, portfolioValue, after.cash,
                                               after.positions, b.previousPortfolioValue,
                                               cfg.initialCapital,
                                               UpdatePeak(b.peakValue, portfolioValue))),
              !.previousPortfolioValue = portfolioValue]

\* The ticker loop of a pass, from the positions marked to the day's closes
TradeDay(b, m, cfg, dateStr, dayData, marked) ==
    TickerLoop(m, cfg, dayData, dateStr, b.cash + totalPositionValue(marked, dayData), 1,
               [cash |-> b.cash, positions |-> marked, trades |-> b.trades])

ValueAfter(after, dayData) == after.cash + totalPositionValue(after.positions, dayData)

DayWithRows(b, m, cfg, dateStr, dayData, after) ==
    IF Len(dayData) = 0 THEN [b EXCEPT !.next = @ + 1]
    ELSE EndOfDay(b, cfg, dateStr, after, ValueAfter(after, dayData))

DayOf(b, m, cfg, dateStr, dayData) ==
    DayWithRows(b, m, cfg, dateStr, dayData,
                TradeDay(b, m, cfg, dateStr, dayData, markPositions(b.positions, dayData)))

\* One pass of `for (const dateStr of uniqueDates)`.
RunDay ==
    /\ bt.status = "RUNNING"
    /\ bt.next <= Len(bt.uniqueDates)
    /\ bt' = DayOf(bt, market, config, bt.uniqueDates[bt.next],
                   RowsOfDate(market, config.tickers, bt.rowOrder,
                              bt.uniqueDates[bt.next]))
    /\ UNCHANGED <<market, config, firstRun>>
    /\ UNCHANGED notBacktest

\* Faulty variant: an empty benchmark series is accepted.
benchmarkNeverMissing(benchmarkData) == FALSE

\* if (benchmarkData.length === 0) throw new Error(`No benchmark data found ...`)
benchmarkMissing(benchmarkData) == Len(benchmarkData) = 0

\* A throw leaves runBacktest: the locals are gone and the caller gets the error.
Thrown(b, error) ==
    [NewBacktest EXCEPT !.status = "FAILED", !.error = error, !.rowOrder = b.rowOrder]

\* runBacktest after the day loop: the metrics are computed, the benchmark
\* rows are read if a benchmark ticker is configured, and the result is
\* returned.
FinishBacktest ==
    /\ bt.status = "RUNNING"
    /\ bt.next > Len(bt.uniqueDates)
    /\ bt' = IF Len(bt.equity) = 0
             THEN Thrown(bt, "No equity data available for performance calculation")
             ELSE IF /\ config.benchmarkTicker # ""
                     /\ benchmarkMissing(findManyBars(market, config.benchmarkTicker,
                                                      config.startDate, config.endDate))
             THEN Thrown(bt, "No benchmark data found")
             ELSE [bt EXCEPT !.status = "COMPLETE",
                             !.performance = calculatePerformanceMetrics(bt.equity, bt.trades)]
    /\ UNCHANGED <<market, config, firstRun>>
    /\ UNCHANGED notBacktest

\* The same call is made again once the first one has ended.
RunAgain ==
    /\ bt.status \in {"COMPLETE", "FAILED"}
    /\ firstRun = NoFirstRun
    /\ firstRun' = [status |-> bt.status, rowOrder |-> bt.rowOrder,
                    trades |-> bt.trades, equity |-> bt.equity]
    /\ bt' = NewBacktest
    /\ UNCHANGED <<market, config>>
    /\ UNCHANGED notBacktest

NextBacktest ==
    \/ StartBacktest
    \/ RunDay
    \/ FinishBacktest
    \/ RunAgain

BacktestSpec == InitBacktest /\ [][NextBacktest]_vars

----------------------------------------------------------------------------
(* runBacktest with any BaseStrategy over any StockData: each pass of the  *)
(* day loop reads the closes of its date and receives from analyze one     *)
(* signal per ticker, both drawn freely.  Every date has a row of every    *)
(* ticker of the run and enough history before it; market holds the closes *)
(* of the dates read so far.                                               *)

MaxTradeDays == 3
TradeCapitals == {10, 200}
TradeCloses == {1, 3}
TradeConfigs ==
    {cfg \in [strategy : {"any"}, tickers : {<<"AAPL">>, <<"AAPL", "MSFT">>},
              startDate : {1}, endDate : {MaxTradeDays},
              initialCapital : {capital * Milli : capital \in TradeCapitals},
              commission : {0, 5, 12}, slippage : {1}, benchmarkTicker : {""}] :
        /\ Len(cfg.tickers) = 1 \/ (cfg.initialCapital = 200 * Milli /\ cfg.commission = 5)
        /\ cfg.commission = 12 => cfg.initialCapital = 10 * Milli}

\* What BaseStrategy.analyze can return, as far as runBacktest reads it
TradeSignals ==
    {[action |-> "HOLD", confidence |-> Rat(0, 1)],
     [action |-> "BUY", confidence |-> Rat(1, 1)],
     [action |-> "BUY", confidence |-> Rat(1, 2)],
     [action |-> "SELL", confidence |-> Rat(1, 1)]}

\* The closes of a day: AAPL moves, MSFT stays at 3
DayCloses == {[t \in Tickers |-> IF t = "AAPL" THEN c ELSE 3] : c \in TradeCloses}

\* The rows of one date, one per ticker of the run
SignalRows(tickers, date, closes) ==
    [k \in 1 .. Len(tickers) |->
        [ticker |-> tickers[k], date |-> date, close |-> closes[tickers[k]], volume |-> 1]]

InitTrade ==
    /\ LedgerStart
    /\ req = <<>>
    /\ SizingIdle
    /\ EngineIdle
    /\ RiskIdle
    /\ market = <<>>
    /\ analysis = NoAnalysis
    /\ config \in TradeConfigs
    /\ bt = NewBacktest
    /\ firstRun = NoFirstRun
    /\ AutoIdle

\* runBacktest up to the day loop, with rows on every date of the range
StartSignalRun ==
    /\ bt.status = "INITIALIZING"
    /\ config.startDate < config.endDate
    /\ bt' = [bt EXCEPT !.status = "RUNNING", !.rowOrder = "asc",
                        !.uniqueDates = [k \in 1 .. config.endDate |-> k],
                        !.cash = config.initialCapital,
                        !.portfolioValue = config.initialCapital,
                        !.previousPortfolioValue = config.initialCapital,
                        !.peakValue = config.initialCapital]
    /\ UNCHANGED <<market, config, firstRun>>
    /\ UNCHANGED notBacktest

\* The loop `for (const ticker of tickers)` of one day with the signals that
\* analyze returned, from the k-th ticker
RECURSIVE SignalLoop(_, _, _, _, _, _, _)
SignalLoop(cfg, dayData, dateStr, portfolioValue, signals, k, state) ==
    IF k > Len(cfg.tickers) THEN state
    ELSE SignalLoop(cfg, dayData, dateStr, portfolioValue, signals, k + 1,
                    ApplySignal(cfg, dateStr, portfolioValue,
                                findRow(dayData, cfg.tickers[k]),
                                signals[cfg.tickers[k]], state))

SignalTradeDay(b, cfg, dateStr, dayData, signals, marked) ==
    SignalLoop(cfg, dayData, dateStr, b.cash + totalPositionValue(marked, dayData),
               signals, 1, [cash |-> b.cash, positions |-> marked, trades |-> b.trades])

SignalDayOf(b, cfg, dateStr, dayData, after) ==
    EndOfDay(b, cfg, dateStr, after, ValueAfter(after, dayData))

\* One pass of `for (const dateStr of uniqueDates)`
SignalDay ==
    /\ bt.status = "RUNNING"
    /\ bt.next <= Len(bt.uniqueDates)
    /\ \E closes \in DayCloses, signals \in [Tickers -> TradeSignals] :
          /\ \A t \in Tickers :
                (\A k \in 1 .. Len(config.tickers) : config.tickers[k] # t)
                    => signals[t].action = "HOLD" /\ signals[t].confidence = Rat(0, 1)
          /\ bt' = SignalDayOf(bt, config, bt.uniqueDates[bt.next],
                               SignalRows(config.tickers, bt.uniqueDates[bt.next], closes),
                               SignalTradeDay(bt, config, bt.uniqueDates[bt.next],
                                   SignalRows(config.tickers, bt.uniqueDates[bt.next],
                                              closes),
                                   signals,
                                   markPositions(bt.positions,
                                       SignalRows(config.tickers, bt.uniqueDates[bt.next],
                                                  closes))))
          /\ market' = Append(market, closes)
    /\ UNCHANGED <<config, firstRun>>
    /\ UNCHANGED notBacktest

NextTrade ==
    \/ StartSignalRun
    \/ SignalDay
    \/ FinishBacktest

TradeSpec == InitTrade /\ [][NextTrade]_vars

----------------------------------------------------------------------------
(* One auto-trading session: startAutoTrading, the timer callback running  *)
(* executeTradingCycle through its awaits, and stopAutoTrading.  The       *)
(* cooldown is at least a minute, so a cycle has ended before the timer    *)
(* fires again.                                                            *)

MaxCycles == 2
MaxAutoDay == 2
AutoConfigs ==
    {cfg \in [fundId : FundIds, tickers : {<<"AAPL">>, <<"AAPL", "MSFT">>},
              maxTradesPerDay : {0, 1, 2}, minConfidenceThreshold : {50},
              cooldownMinutes : {1}, maxPositionValue : {1000},
              executionMode : {"PAPER", "LIVE"}] :
        Len(cfg.tickers) = 2 => cfg.maxTradesPerDay = 1 /\ cfg.executionMode = "PAPER"}

\* What executeAllStrategies can return for a ticker
StrategyAnalyses ==
    {a \in [consensus : {"BUY", "SELL", "HOLD"}, avgConfidence : {30, 80},
            recommendedSize : {0, 5, 20}] :
        /\ a.consensus = "HOLD" => a.avgConfidence = 80 /\ a.recommendedSize = 5
        /\ a.avgConfidence = 30 => a.recommendedSize = 5
        /\ a.consensus = "SELL" => a.recommendedSize = 5}

\* The latest close of a ticker; NULL when StockData has no row of it
CurrentPrices == {NULL, 10}

\* The OPEN lots of the fund when the risk is validated
AutoLots == {<<>>, <<[quantity |-> 90, entryPrice |-> 10, currentPrice |-> 10]>>}

\* The OPEN lots of the fund when the position controller serves the order
LiveLots == {<<>>, <<[quantity |-> 96, entryPrice |-> 10, currentPrice |-> 10]>>}

InitAuto ==
    /\ LedgerStart
    /\ req = <<>>
    /\ SizingIdle
    /\ EngineIdle
    /\ RiskIdle
    /\ AnalysisIdle
    /\ BacktestIdle
    /\ session = NoSession
    /\ cycle = NoCycle
    /\ audit = NoAudit
    /\ today = 1

\* startAutoTrading: an invalid configuration throws and stores nothing.
StartAutoTrading ==
    /\ session.status = "NONE"
    /\ \E cfg \in AutoConfigs :
          session' = IF Len(validateConfig(cfg)) = 0 THEN NewSession(cfg) ELSE session
    /\ UNCHANGED <<cycle, audit, today>>
    /\ UNCHANGED notAuto

\* stopAutoTrading: the timer is cleared and the session is STOPPED.  A cycle
\* in progress is not interrupted.
StopAutoTrading ==
    /\ session.status # "NONE"
    /\ session' = stopAutoTrading(session, today)
    /\ UNCHANGED <<cycle, audit, today>>
    /\ UNCHANGED notAuto

\* pauseAutoTrading on the session, whatever its status
PauseAutoTrading ==
    /\ session.status # "NONE"
    /\ session' = pauseAutoTrading(session)
    /\ UNCHANGED <<cycle, audit, today>>
    /\ UNCHANGED notAuto

\* resumeAutoTrading: throws unless the session is PAUSED
ResumeAutoTrading ==
    /\ session.status = "PAUSED"
    /\ session' = resumeAutoTrading(session)
    /\ UNCHANGED <<cycle, audit, today>>
    /\ UNCHANGED notAuto

\* The timer fires and executeTradingCycle rejects on reaching its ticker
\* loop (session.config.tickers cannot be iterated): the catch of the timer
\* callback calls handleTradingError.
CycleThrows ==
    /\ session.timers > 0
    /\ cycle.pc = "idle"
    /\ cycle.count < MaxCycles
    /\ session.status = "RUNNING"
    /\ todayTrades(session.results, today) < session.config.maxTradesPerDay
    /\ cycle' = [cycle EXCEPT !.count = @ + 1]
    /\ session' = handleTradingError(session)
    /\ audit' = [audit EXCEPT !.errors = @ + 1]
    /\ UNCHANGED today
    /\ UNCHANGED notAuto

\* The timer fires and executeTradingCycle runs up to its ticker loop: the
\* status and the daily limit are tested here, once for the cycle.
BeginCycle ==
    /\ session.timers > 0
    /\ cycle.pc = "idle"
    /\ cycle.count < MaxCycles
    /\ cycle' = IF session.status # "RUNNING"
                   \/ todayTrades(session.results, today) >= session.config.maxTradesPerDay
                THEN [cycle EXCEPT !.count = @ + 1]
                ELSE [cycle EXCEPT !.pc = "ticker", !.k = 1, !.count = @ + 1]
    /\ UNCHANGED <<session, audit, today>>
    /\ UNCHANGED notAuto

\* processTicker up to the risk validation: the strategies are run, the
\* confidence and the consensus are tested and the price is read.  A session
\* of two tickers is run with known prices and with strategies that hold or
\* buy a positive size; the other answers are drawn in the sessions of one
\* ticker.
AnalyzeTicker ==
    /\ cycle.pc = "ticker"
    /\ \E strategyAnalysis \in StrategyAnalyses, latestPrice \in CurrentPrices :
          LET ticker == session.config.tickers[cycle.k]
              call == audit.calls + 1
          IN /\ Len(session.config.tickers) = 2
                    => /\ latestPrice # NULL
                       /\ strategyAnalysis.consensus # "SELL"
                       /\ strategyAnalysis.recommendedSize > 0
             /\ audit' = [audit EXCEPT !.calls = call]
             /\ IF strategyAnalysis.avgConfidence < session.config.minConfidenceThreshold
                   \/ strategyAnalysis.consensus = "HOLD"
                THEN /\ cycle' = NextTicker(cycle, session.config.tickers)
                     /\ session' = session
                ELSE IF latestPrice = NULL
                THEN /\ cycle' = NextTicker(cycle, session.config.tickers)
                     /\ session' = PushError(session, errorResult(ticker, call, today))
                ELSE /\ cycle' = [cycle EXCEPT !.pc = "validate", !.call = call,
                                               !.analysis = strategyAnalysis,
                                               !.price = latestPrice]
                     /\ session' = session
    /\ UNCHANGED today
    /\ UNCHANGED notAuto

\* processTicker from the answer of validateTradeRisk to the execution: a
\* thrown validation ends in the errorResult, a failed one in the
\* RISK_BLOCKED result, a position above maxPositionValue in null.
ValidateRisk ==
    /\ cycle.pc = "validate"
    /\ \E lots \in AutoLots :
          LET ticker == session.config.tickers[cycle.k]
              riskValidation == validateTradeRisk(session.fundId,
                                                  cycle.analysis.recommendedSize,
                                                  cycle.price, lots)
          IN IF riskValidation.threw
             THEN /\ cycle' = NextTicker(cycle, session.config.tickers)
                  /\ session' = PushError(session, errorResult(ticker, cycle.call, today))
                  /\ audit' = audit
             ELSE /\ audit' = [audit EXCEPT !.validations =
                                  Append(@, [call |-> cycle.call,
                                             isValid |-> riskValidation.isValid])]
                  /\ IF RiskBlocks(riskValidation)
                     THEN /\ cycle' = NextTicker(cycle, session.config.tickers)
                          /\ session' = PushResult(session,
                                           blockedResult(ticker, cycle.call, cycle.analysis,
                                                         cycle.price, today))
                     ELSE IF cycle.analysis.recommendedSize * cycle.price
                                > session.config.maxPositionValue
                     THEN /\ cycle' = NextTicker(cycle, session.config.tickers)
                          /\ session' = session
                     ELSE /\ cycle' = [cycle EXCEPT !.pc = "execute"]
                          /\ session' = session
    /\ UNCHANGED today
    /\ UNCHANGED notAuto

\* executePaperTrade or executeLiveTrade, and the result processTicker
\* returns: a paper trade always succeeds and reaches no controller (status
\* NULL); a live trade is handed to PositionController, whose answer is
\* logged with the execution.
ExecuteTrade ==
    /\ cycle.pc = "execute"
    /\ \E lots \in LiveLots :
          LET ticker == session.config.tickers[cycle.k]
              status == IF session.config.executionMode = "PAPER" THEN NULL
                        ELSE liveOrderStatus(cycle.analysis.consensus,
                                             cycle.analysis.recommendedSize,
                                             cycle.price, lots)
              success == session.config.executionMode = "PAPER"
                            \/ executeLiveTrade(status)
          IN /\ session.config.executionMode = "PAPER" => lots = <<>>
             /\ audit' = [audit EXCEPT !.executions =
                             Append(@, [call |-> cycle.call, ticker |-> ticker,
                                        action |-> cycle.analysis.consensus,
                                        quantity |-> cycle.analysis.recommendedSize,
                                        price |-> cycle.price,
                                        mode |-> session.config.executionMode,
                                        status |-> status])]
             /\ session' = PushResult(session,
                              tradeResult(success, ticker, cycle.call, cycle.analysis,
                                          cycle.price, today))
             /\ cycle' = NextTicker(cycle, session.config.tickers)
    /\ UNCHANGED today
    /\ UNCHANGED notAuto

\* Midnight passes.
NextDay ==
    /\ session.status # "NONE"
    /\ today < MaxAutoDay
    /\ today' = today + 1
    /\ UNCHANGED <<session, cycle, audit>>
    /\ UNCHANGED notAuto

NextAuto ==
    \/ StartAutoTrading
    \/ StopAutoTrading
    \/ PauseAutoTrading
    \/ ResumeAutoTrading
    \/ CycleThrows
    \/ BeginCycle
    \/ AnalyzeTicker
    \/ ValidateRisk
    \/ ExecuteTrade
    \/ NextDay

AutoSpec == InitAuto /\ [][NextAuto]_vars

----------------------------------------------------------------------------
(* Properties of the lot ledger, requests served one at a time *)

\* A step made by sellStock: every sellStock writes a SELL response and
\* every buyStock a BUY response.
SellStep == res'.type = "SELL" /\ vars' # vars

\* OPEN lots of the ticker entered strictly before lot i
EarlierOpen(db, i) ==
    {j \in ActiveIds(db, db[i].ticker) : db[j].entryDate < db[i].entryDate}

\* C1: a sell reduces or closes a lot only if every OPEN lot of the same
\* ticker with an earlier entry date is closed once the sell is done.
C1_FIFOOrder ==
    [][SellStep =>
         \A i \in 1 .. Len(positions) :
            positions'[i] # positions[i] =>
               \A j \in EarlierOpen(positions, i) : ~positions'[j].isActive]_vars

\* A sell went through two lots while a younger lot of the ticker stays OPEN.
C1_Witness ==
    /\ res.type = "SELL" /\ res.success /\ Len(soldPositions) = 2
    /\ \E i \in ActiveIds(positions, res.ticker) :
          /\ positions[i].id # soldPositions[2].id
          /\ positions[i].entryDate > positions[soldPositions[2].id].entryDate

\* C2: the available quantity of every ticker is never negative, and no
\* sell increases it.
C2_AvailableMonotone ==
    /\ [](\A t \in Tickers : getAvailableShares(positions, t) >= 0)
    /\ [][SellStep =>
            \A t \in Tickers :
               getAvailableShares(positions', t) <= getAvailableShares(positions, t)]_vars

\* An accepted sell left a smaller, still positive, available quantity.
C2_Witness ==
    /\ res.type = "SELL" /\ res.success
    /\ getAvailableShares(positions, res.ticker) > 0
    /\ getAvailableShares(positions, res.ticker) + res.quantity <= bought[res.ticker]

\* C4: a sell of more than the available quantity changes no lot and is
\* answered 400 "Insufficient shares"; only accepted sells of at most the
\* available quantity change the table.
C4_RejectNoPartial ==
    [][SellStep =>
         /\ positions' # positions =>
               /\ res'.success
               /\ res'.quantity <= getAvailableShares(positions, res'.ticker)
         /\ res'.message = "Insufficient shares to sell" =>
               /\ res'.status = 400 /\ ~res'.success
               /\ positions' = positions
               /\ res'.available = getAvailableShares(positions, res'.ticker)
               /\ res'.requested > res'.available]_vars

\* A sell was rejected although some shares, fewer than asked, were OPEN.
C4_Witness ==
    /\ res.type = "SELL" /\ res.message = "Insufficient shares to sell"
    /\ res.available > 0
    /\ getAvailableShares(positions, res.ticker) = res.available
    /\ \E i \in ActiveIds(positions, res.ticker) : positions[i].exitPrice = NULL

\* C5: after buys only, then sells only, once the sells have taken all that
\* remained, the returned sub-lot quantities add up to the quantity bought
\* and no lot of the ticker is OPEN.
C5_Conservation ==
    \A t \in Tickers :
       (phase[t] = "selling" /\ getAvailableShares(positions, t) = 0) =>
          /\ returned[t] = bought[t]
          /\ ActiveIds(positions, t) = {}

\* Buys, a partial sell that split a lot, and a final sell of the rest.
C5_Witness ==
    \E t \in Tickers :
       /\ phase[t] = "selling" /\ getAvailableShares(positions, t) = 0
       /\ bought[t] >= 2 /\ returned[t] = bought[t]
       /\ res.type = "SELL" /\ res.success /\ res.ticker = t
       /\ \E i \in 1 .. Len(positions) :
             positions[i].ticker = t /\ positions[i].entryDate = positions[i].exitDate

\* C6: the reported realized P&L is the sum over the returned sub-lots of
\* quantity x (exit price - entry price), and the reported percent is that
\* P&L over the sum of quantity x entry price (times 100).
SubLotPnL(sold, exitPrice) ==
    SumSeq([k \in 1 .. Len(sold) |-> sold[k].quantity * (exitPrice - sold[k].entryPrice)])

SubLotCost(sold) ==
    SumSeq([k \in 1 .. Len(sold) |-> sold[k].quantity * sold[k].entryPrice])

C6_RealizedPnL ==
    (res.type = "SELL" /\ res.success) =>
       /\ res.realizedPnL = SubLotPnL(soldPositions, res.price)
       /\ SubLotCost(soldPositions) > 0
       /\ res.pctNum * SubLotCost(soldPositions)
             = 100 * SubLotPnL(soldPositions, res.price) * res.pctDen

\* The round trip of the specification, in units of 50 shares:
\* buy 2 @ 10, sell 2 @ 12 gives 4 (x 50 = 200) and 20%, no OPEN lot left.
C6_Witness ==
    /\ res.type = "SELL" /\ res.success /\ res.quantity = 2 /\ res.price = 12
    /\ Len(soldPositions) = 1 /\ soldPositions[1].entryPrice = 10
    /\ res.realizedPnL = 4
    /\ res.pctNum = 20 * res.pctDen
    /\ ActiveIds(positions, res.ticker) = {}

\* C7: in a sell of q shares of a ticker, with the OPEN lots taken in entry
\* order and r the part of q not covered by earlier lots: a lot with
\* quantity <= r is marked CLOSED with its quantity unchanged; a lot with
\* quantity > r > 0 stays OPEN with quantity reduced by r and exactly one
\* new CLOSED lot carries r, the lot's entry price and the exit price; the
\* other lots are untouched.
RemainingAt(db, i, q) ==
    q - SumSet(EarlierOpen(db, i), [j \in 1 .. Len(db) |-> db[j].quantity])

C7_PartialAndFull ==
    [][(SellStep /\ res'.success) =>
         LET t == res'.ticker
             q == res'.quantity
             n == Len(positions)
             split == {i \in ActiveIds(positions, t) :
                          /\ RemainingAt(positions, i, q) > 0
                          /\ positions[i].quantity > RemainingAt(positions, i, q)}
         IN /\ \A i \in 1 .. n :
                  LET r == RemainingAt(positions, i, q) IN
                  IF i \notin ActiveIds(positions, t) \/ r <= 0
                  THEN positions'[i] = positions[i]
                  ELSE IF positions[i].quantity <= r
                  THEN /\ ~positions'[i].isActive
                       /\ positions'[i].quantity = positions[i].quantity
                       /\ positions'[i].exitPrice = res'.price
                       /\ positions'[i].entryPrice = positions[i].entryPrice
                  ELSE /\ positions'[i].isActive
                       /\ positions'[i].quantity = positions[i].quantity - r
                       /\ positions'[i].quantity > 0
                       /\ positions'[i].exitPrice = NULL
                       /\ Len(positions') = n + 1
                       /\ ~positions'[n + 1].isActive
                       /\ positions'[n + 1].ticker = t
                       /\ positions'[n + 1].quantity = r
                       /\ positions'[n + 1].entryPrice = positions[i].entryPrice
                       /\ positions'[n + 1].exitPrice = res'.price
            /\ Cardinality(split) <= 1
            /\ Len(positions') = n + Cardinality(split)]_vars

\* A sell closed one lot whole and split the next one.
C7_Witness ==
    /\ res.type = "SELL" /\ res.success /\ Len(soldPositions) = 2
    /\ ~positions[soldPositions[1].id].isActive
    /\ positions[soldPositions[1].id].quantity = soldPositions[1].quantity
    /\ positions[soldPositions[2].id].isActive
    /\ positions[soldPositions[2].id].quantity > 0
    /\ ~positions[Len(positions)].isActive
    /\ positions[Len(positions)].quantity = soldPositions[2].quantity
    /\ positions[Len(positions)].entryPrice = soldPositions[2].entryPrice
    /\ positions[Len(positions)].exitPrice = res.price

----------------------------------------------------------------------------
(* Properties of sell requests in flight together *)

\* C3: every accepted sell closes exactly its requested quantity, and the
\* quantity returned as closed never exceeds the quantity bought.
C3_AtomicCheckThenSell ==
    /\ \A t \in Tickers : returned[t] <= bought[t]
    /\ \A r \in ReqIds :
          (req[r].pc = "done" /\ req[r].status = 200) =>
             SoldQuantity(req[r].sold) = req[r].quantity

----------------------------------------------------------------------------
(* Properties of position sizing *)

----------------------------------------------------------------------------
(* Properties of the consensus *)

Executable(st) == strategyResults[st].shouldExecute

\* Tally of an action: the confidences of the executable results with that
\* action, plus 1 for every non-executable result when the action is HOLD.
Tally(action) ==
    SumSet({st \in Strategies : Executable(st) /\ strategyResults[st].action = action},
           [st \in Strategies |-> strategyResults[st].confidence])
    + (IF action = "HOLD"
       THEN Scale * Cardinality({st \in Strategies : ~Executable(st)})
       ELSE 0)

\* C9: the consensus is the action with the highest tally; on a tie BUY is
\* preferred over SELL and SELL over HOLD.
C9_Consensus ==
    portfolio # NoPortfolio =>
       /\ portfolio.consensus = "BUY" <=>
             (Tally("BUY") >= Tally("SELL") /\ Tally("BUY") >= Tally("HOLD"))
       /\ portfolio.consensus = "SELL" <=>
             (Tally("SELL") > Tally("BUY") /\ Tally("SELL") >= Tally("HOLD"))
       /\ portfolio.consensus = "HOLD" <=>
             (Tally("HOLD") > Tally("BUY") /\ Tally("HOLD") > Tally("SELL"))

\* An exact tie: an executable BUY and an executable SELL of the same
\* confidence, no tally above them, and the consensus is BUY.
C9_Witness ==
    /\ portfolio # NoPortfolio
    /\ Tally("BUY") > 0
    /\ Tally("BUY") = Tally("SELL") /\ Tally("BUY") >= Tally("HOLD")
    /\ portfolio.consensus = "BUY"

\* C10: the recommended size is the floor of the confidence-weighted average
\* of the sizes of all executable results, those of size 0 included, and 0
\* if no result is executable.
C10_RecommendedSize ==
    portfolio # NoPortfolio =>
       LET exec == {st \in Strategies : Executable(st)}
           weight == SumSet(exec, [st \in Strategies |-> strategyResults[st].confidence])
           weighted == SumSet(exec, [st \in Strategies |->
                          IF Executable(st)
                          THEN strategyResults[st].positionSize * strategyResults[st].confidence
                          ELSE 0])
       IN portfolio.recommendedSize
             = IF exec = {} \/ weight = 0 THEN 0 ELSE weighted \div weight

\* C11: a strategy whose evaluation throws is recorded as a failed result
\* (HOLD, confidence 0, not executable, no position size); its siblings that
\* have not finished can still be evaluated; and the consensus, the average
\* confidence and the recommended size exist only once every strategy has a
\* result, and are computed over all results, the failed ones included.
C11_FailedResultJoin ==
    /\ \A st \in Strategies :
          strategyResults[st].failed =>
             /\ strategyResults[st].action = "HOLD"
             /\ strategyResults[st].confidence = 0
             /\ ~strategyResults[st].shouldExecute
             /\ strategyResults[st].positionSize = NULL
    /\ (portfolio = NoPortfolio /\ \E st \in Strategies : strategyResults[st].failed) =>
          \A sibling \in Strategies :
             strategyResults[sibling] = NoResult => ENABLED executeStrategy(sibling)
    /\ portfolio # NoPortfolio =>
          /\ \A st \in Strategies : strategyResults[st] # NoResult
          /\ portfolio.count = Cardinality(Strategies)
          /\ portfolio.confidenceSum
                = SumSet(Strategies, [st \in Strategies |-> strategyResults[st].confidence])
          /\ portfolio.consensus
                = PickConsensus(Tally("BUY"), Tally("SELL"), Tally("HOLD"))
          /\ portfolio.recommendedSize
                = calculateRecommendedSize(ResultList(strategyResults))

\* One strategy failed, its two siblings returned executable BUY signals and
\* the consensus over the three results is BUY.
C11_Witness ==
    /\ portfolio # NoPortfolio
    /\ Cardinality({st \in Strategies : strategyResults[st].failed}) = 1
    /\ Cardinality({st \in Strategies : Executable(st)}) = 2
    /\ Tally("HOLD") = Scale
    /\ portfolio.count = Cardinality(Strategies)
    /\ portfolio.consensus = "BUY"

----------------------------------------------------------------------------
(* Properties of the risk validation *)

\* The outcome of the last call of validateTradeRisk
RiskOutcome ==
    validateTradeRisk(riskCheck.fundId, riskCheck.quantity, riskCheck.price, riskCheck.lots)

\* C12: for every fund id, quantity and price validateTradeRisk returns a
\* result and does not throw, and isValid is true exactly when the list of
\* violations is empty.
C12_NeverFatal ==
    riskCheck.called =>
       /\ ~RiskOutcome.threw
       /\ RiskOutcome.isValid <=> (RiskOutcome.violations = <<>>)

----------------------------------------------------------------------------
(* Properties of MovingAverageStrategy.analyze *)

\* The simple moving average of the closes of a ticker over the period
\* bars ending at the last bar on or before a date, skipping `back` bars.
SMAAt(m, ticker, date, period, back) ==
    LET history == getTickerHistory(m, ticker, date, historyDays)
        last == Len(history) - back
    IN [n |-> SumSeq([k \in 1 .. period |-> history[last - period + k].close]),
        d |-> period]

BarsAt(m, ticker, date) == Len(getTickerHistory(m, ticker, date, historyDays))

\* fast SMA <= slow SMA at the previous bar and fast SMA > slow SMA at the last bar
BullishCrossAt(m, st, ticker, date) ==
    LET fast == parameters[st].fastPeriod
        slow == parameters[st].slowPeriod
    IN /\ BarsAt(m, ticker, date) >= slow + 1
       /\ RLeq(SMAAt(m, ticker, date, fast, 1), SMAAt(m, ticker, date, slow, 1))
       /\ RLess(SMAAt(m, ticker, date, slow, 0), SMAAt(m, ticker, date, fast, 0))

\* fast SMA >= slow SMA at the previous bar and fast SMA < slow SMA at the last bar
BearishCrossAt(m, st, ticker, date) ==
    LET fast == parameters[st].fastPeriod
        slow == parameters[st].slowPeriod
    IN /\ BarsAt(m, ticker, date) >= slow + 1
       /\ RLeq(SMAAt(m, ticker, date, slow, 1), SMAAt(m, ticker, date, fast, 1))
       /\ RLess(SMAAt(m, ticker, date, fast, 0), SMAAt(m, ticker, date, slow, 0))

VolumeFilterPasses(m, st, ticker, date) ==
    HasBar(m, ticker, date) /\ Volume(m, ticker, date) >= parameters[st].minVolume

\* C16: when the fast SMA was <= the slow SMA at the previous bar and is
\* > the slow SMA at the last bar, and the volume filter passes, analyze
\* returns BUY with a confidence of at least 0.6 and at most 0.8.
C16_BullishCrossoverBuy ==
    (/\ analysis # NoAnalysis
     /\ HasBar(market, analysis.ticker, analysis.date)
     /\ BullishCrossAt(market, analysis.strategy, analysis.ticker, analysis.date)
     /\ VolumeFilterPasses(market, analysis.strategy, analysis.ticker, analysis.date)) =>
       /\ analysis.signal.action = "BUY"
       /\ RLeq(Rat(6, 10), analysis.signal.confidence)
       /\ RLeq(analysis.signal.confidence, Rat(8, 10))

\* C24: analyze returns SELL only when the supplied current position is
\* greater than zero; with a current position of 0 every result is BUY or
\* HOLD.
C24_SellNeedsPosition ==
    analysis # NoAnalysis =>
        /\ analysis.signal.action \in {"BUY", "SELL", "HOLD"}
        /\ analysis.signal.action = "SELL" => analysis.currentPosition > 0
        /\ analysis.currentPosition = 0 => analysis.signal.action \in {"BUY", "HOLD"}

C24_Witness ==
    /\ analysis # NoAnalysis
    /\ analysis.signal.action = "SELL"
    /\ analysis.currentPosition > 0
    /\ analysis.signal.reason = "Strong downtrend - exit position"

----------------------------------------------------------------------------
(* Properties of runBacktest *)

\* The date of the pass of the day loop that ran last
LastDate == bt.equity[Len(bt.equity)].date

\* The quantity of ticker held when the last pass began
HeldBefore(ticker) ==
    IF Len(bt.equity) >= 2 THEN bt.equity[Len(bt.equity) - 1].positions[ticker] ELSE 0

TradesOf(action) == {k \in 1 .. Len(bt.trades) : bt.trades[k].action = action}

TradedOn(date, ticker, action) ==
    \E k \in TradesOf(action) : bt.trades[k].date = date /\ bt.trades[k].ticker = ticker

TradedOnDay(trades, date, ticker) ==
    \E k \in 1 .. Len(trades) : trades[k].date = date /\ trades[k].ticker = ticker

RiseThenFall(m) == m.before > 0 /\ m.after < 0

\* C13: in a backtest, when a position in a ticker is open at the start of a
\* day on which the fast SMA of the ticker crosses below the slow SMA (the
\* volume filter passing), a SELL of the ticker is recorded for that day; and
\* a completed Standard MA(20/50) run over closes that rise and then fall
\* (the crossover lying inside the range) records at least one BUY and at
\* least one SELL.
C13_BacktestSells ==
    /\ (bt.status \in {"RUNNING", "COMPLETE"} /\ Len(bt.equity) >= 1) =>
          \A k \in 1 .. Len(config.tickers) :
              (/\ HeldBefore(config.tickers[k]) > 0
               /\ HasBar(market, config.tickers[k], LastDate)
               /\ VolumeFilterPasses(market, config.strategy, config.tickers[k], LastDate)
               /\ BearishCrossAt(market, config.strategy, config.tickers[k], LastDate))
                 => TradedOn(LastDate, config.tickers[k], "SELL")
    /\ (/\ bt.status = "COMPLETE"
        /\ config.strategy = "standard"
        /\ RiseThenFall(market)
        /\ \E date \in config.startDate + 1 .. config.endDate :
              BearishCrossAt(market, "standard", "AAPL", date))
          => TradesOf("BUY") # {} /\ TradesOf("SELL") # {}

\* The close of the latest bar of ticker on or before date
LatestClose(m, ticker, date) ==
    LET latest == CHOOSE d \in 1 .. date :
                      /\ HasBar(m, ticker, d)
                      /\ \A e \in d + 1 .. date : ~HasBar(m, ticker, e)
    IN Close(m, ticker, latest)

\* C14: the portfolio value of the equity point of a day is the cash plus,
\* over every open position, quantity times the latest known close of its
\* ticker, also for a ticker that has no bar on that day.
C14_MarkToMarket ==
    (bt.status \in {"RUNNING", "COMPLETE"} /\ Len(bt.equity) >= 1) =>
        LET point == bt.equity[Len(bt.equity)]
        IN point.portfolioValue =
              point.cash
                + SumSet({t \in Tickers : point.positions[t] > 0},
                         [t \in Tickers |->
                             point.positions[t] * LatestClose(market, t, point.date) * Milli])

\* C15: two runs of runBacktest with the same strategy, config and tickers
\* over the same StockData rows end the same way, with the same trade log
\* and the same equity curve, whatever the order in which the rows of one
\* date were returned.
C15_Idempotent ==
    (firstRun # NoFirstRun /\ bt.status \in {"COMPLETE", "FAILED"}) =>
        /\ bt.status = firstRun.status
        /\ bt.trades = firstRun.trades
        /\ bt.equity = firstRun.equity

C15_Witness ==
    /\ firstRun.status = "COMPLETE"
    /\ bt.status = "COMPLETE"
    /\ Len(config.tickers) = 2
    /\ bt.rowOrder # firstRun.rowOrder
    /\ TradesOf("BUY") # {}
    /\ bt.trades = firstRun.trades
    /\ Len(bt.equity) >= 2

\* C17: a signal whose confidence is below the minConfidence of its strategy
\* is treated as HOLD: the backtest records no trade for it, and the
\* orchestrator marks its result non-executable and computes no position
\* size for it.
C17_ConfidenceFloor ==
    /\ \A k \in 1 .. Len(bt.trades) :
          RLeq(Rat(minConfidence[config.strategy], Scale), bt.trades[k].confidence)
    /\ \A st \in Strategies :
          (strategyResults[st] # NoResult
             /\ strategyResults[st].confidence < minConfidence[st]) =>
                /\ ~strategyResults[st].shouldExecute
                /\ strategyResults[st].positionSize = NULL

\* The distinct dates of the rows the run read
RunDates == HistoricalDates(market, config.tickers, config.startDate, config.endDate)

\* The change of cash a logged trade stands for
CashEffect(trade) ==
    IF trade.action = "BUY" THEN 0 - trade.totalValue
    ELSE trade.totalValue - trade.commission

BacktestShape ==
    /\ bt.status \in {"NONE", "INITIALIZING", "RUNNING", "COMPLETE", "FAILED"}
    /\ bt.status \in {"NONE", "INITIALIZING", "FAILED"} => bt.equity = <<>> /\ bt.trades = <<>>
    /\ bt.status \in {"RUNNING", "COMPLETE"} =>
          /\ bt.next <= Cardinality(RunDates) + 1
          /\ Len(bt.equity) = bt.next - 1
          /\ \A k \in 1 .. Len(bt.equity) :
                /\ bt.equity[k].date \in RunDates
                /\ Cardinality({d \in RunDates : d < bt.equity[k].date}) = k - 1
    /\ bt.status = "COMPLETE" => Len(bt.equity) = Cardinality(RunDates)

BacktestDayStep ==
    (bt.status = "RUNNING" /\ bt'.status = "RUNNING" /\ bt' # bt) =>
        LET point == bt'.equity[Len(bt'.equity)]
            logged == Len(bt'.trades) - Len(bt.trades)
        IN /\ bt'.next = bt.next + 1
           /\ bt'.equity = Append(bt.equity, point)
           /\ logged >= 0
           /\ SubSeq(bt'.trades, 1, Len(bt.trades)) = bt.trades
           /\ \A k \in Len(bt.trades) + 1 .. Len(bt'.trades) : bt'.trades[k].date = point.date
           /\ bt'.cash = bt.cash + SumSeq([k \in 1 .. logged |->
                                             CashEffect(bt'.trades[Len(bt.trades) + k])])
           /\ point.cash = bt'.cash
           /\ \A t \in Tickers :
                 TradedOnDay(bt'.trades, point.date, t)
                   \/ (/\ bt'.positions[t].quantity = bt.positions[t].quantity
                       /\ bt'.positions[t].entryPrice = bt.positions[t].entryPrice
                       /\ bt'.positions[t].entryDate = bt.positions[t].entryDate)
           /\ point.dailyReturn.d = bt.previousPortfolioValue
           /\ point.dailyReturn.n = point.portfolioValue - bt.previousPortfolioValue
           /\ bt'.previousPortfolioValue = point.portfolioValue
           /\ bt'.peakValue = Max(bt.peakValue, point.portfolioValue)
           /\ point.drawdown.d = bt'.peakValue

BacktestStatusStep ==
    bt'.status # bt.status =>
        <<bt.status, bt'.status>> \in
            {<<"INITIALIZING", "RUNNING">>, <<"INITIALIZING", "FAILED">>,
             <<"RUNNING", "COMPLETE">>, <<"RUNNING", "FAILED">>,
             <<"COMPLETE", "INITIALIZING">>, <<"FAILED", "INITIALIZING">>}

\* C20: runBacktest processes the distinct dates of its rows in strictly
\* ascending order, one pass per date; each pass starts from the cash, the
\* positions, the previous portfolio value and the peak the pass before it
\* left; the equity curve has exactly one point per processed date, in that
\* order; and the run ends COMPLETE or FAILED.
C20_DayLoop ==
    /\ []BacktestShape
    /\ [][BacktestDayStep /\ BacktestStatusStep]_vars

C20_Witness ==
    /\ bt.status = "COMPLETE"
    /\ Len(config.tickers) = 2
    /\ market.gap # 0
    /\ Len(bt.equity) = Cardinality(RunDates)
    /\ Len(bt.equity) >= 2
    /\ Len(bt.trades) >= 2

\* The largest of the initial capital and the first k portfolio values
RECURSIVE RunningPeak(_, _, _)
RunningPeak(initialCapital, equity, k) ==
    IF k = 0 THEN initialCapital
    ELSE Max(RunningPeak(initialCapital, equity, k - 1), equity[k].portfolioValue)

PeakShape ==
    bt.status \in {"RUNNING", "COMPLETE"} =>
        /\ bt.peakValue = RunningPeak(config.initialCapital, bt.equity, Len(bt.equity))
        /\ \A k \in 1 .. Len(bt.equity) :
              LET peak == RunningPeak(config.initialCapital, bt.equity, k)
              IN /\ bt.equity[k].drawdown.d = peak
                 /\ bt.equity[k].drawdown.n = peak - bt.equity[k].portfolioValue
                 /\ bt.equity[k].drawdown.n >= 0
                 /\ peak > 0
        /\ bt.status = "COMPLETE" =>
              /\ \E k \in 1 .. Len(bt.equity) :
                    bt.performance.maxDrawdown = bt.equity[k].drawdown
              /\ \A k \in 1 .. Len(bt.equity) :
                    FracLeq(bt.equity[k].drawdown.n, bt.equity[k].drawdown.d,
                            bt.performance.maxDrawdown.n, bt.performance.maxDrawdown.d)

PeakStep ==
    (bt.status = "RUNNING" /\ bt'.status \in {"RUNNING", "COMPLETE"}) =>
        bt'.peakValue >= bt.peakValue

\* C21: during a backtest the running peak is the largest of the initial
\* capital and every portfolio value recorded so far and never decreases;
\* the drawdown of every equity point is (peak - portfolio value) / peak and
\* is not negative; the reported maximum drawdown is the largest drawdown
\* of the equity points.
C21_PeakDrawdown ==
    /\ []PeakShape
    /\ [][PeakStep]_vars

C21_Witness ==
    /\ bt.status = "COMPLETE"
    /\ Len(bt.equity) >= 3
    /\ bt.peakValue > config.initialCapital
    /\ bt.peakValue > bt.portfolioValue
    /\ bt.performance.maxDrawdown.n > 0
    /\ \E k \in 1 .. Len(bt.equity) :
          /\ bt.equity[k].drawdown.n > 0
          /\ bt.equity[k].drawdown # bt.performance.maxDrawdown
    /\ \E k \in 2 .. Len(bt.equity) :
          bt.equity[k].portfolioValue > bt.equity[k - 1].portfolioValue

\* The cash before the k-th logged trade: cash changes by trades only
CashBefore(k) == IF k = 1 THEN config.initialCapital ELSE bt.trades[k - 1].cash

\* The close that the k-th logged trade was priced from
CloseOf(k) == market[bt.trades[k].date][bt.trades[k].ticker]

TradePriced(k) ==
    LET trade == bt.trades[k]
    IN /\ trade.action \in {"BUY", "SELL"}
       /\ trade.action = "BUY" => trade.price = CloseOf(k) * (Milli + config.slippage)
       /\ trade.action = "SELL" => trade.price = CloseOf(k) * (Milli - config.slippage)

BuySized(k) ==
    LET trade == bt.trades[k]
        value == trade.quantity * CloseOf(k) * Milli
    IN trade.action = "BUY" =>
          /\ trade.quantity > 0
          /\ value * 10 * trade.confidence.d <= trade.portfolioValue * trade.confidence.n
          /\ value * 100 <= CashBefore(k) * 95
          /\ trade.totalValue = trade.quantity * trade.price + config.commission * Milli
          /\ trade.totalValue <= CashBefore(k)

CashAfter(k) ==
    LET trade == bt.trades[k]
    IN /\ trade.action = "BUY" => trade.cash = CashBefore(k) - trade.totalValue
       /\ trade.action = "SELL" =>
             trade.cash = CashBefore(k) + trade.quantity * trade.price
                             - config.commission * Milli

\* C22: a backtest BUY executes at price x (1 + slippage) and a SELL at
\* price x (1 - slippage); the pre-slippage value of a BUY is at most
\* min(10% of the portfolio value x confidence, 95% of the cash); no BUY
\* whose total cost (quantity x slipped price + commission) exceeds the cash
\* is recorded; after each recorded trade the cash is the cash before it
\* minus the total cost (BUY) or plus quantity x slipped price minus the
\* commission (SELL).
C22_TradeExecution ==
    bt.status \in {"RUNNING", "COMPLETE"} =>
        /\ \A k \in 1 .. Len(bt.trades) : TradePriced(k) /\ BuySized(k) /\ CashAfter(k)
        /\ bt.cash = CashBefore(Len(bt.trades) + 1)

C22_Witness ==
    /\ bt.status = "COMPLETE"
    /\ config.commission > 0
    /\ \E j, k \in 1 .. Len(bt.trades) :
          /\ j < k
          /\ bt.trades[j].action = "BUY"
          /\ bt.trades[k].action = "SELL"
          /\ bt.trades[j].ticker = bt.trades[k].ticker
          /\ bt.trades[j].confidence = Rat(1, 2)
          /\ CloseOf(j) # CloseOf(k)

\* The run has no usable trading day, or its benchmark ticker has no row
NoTradingDay == config.startDate >= config.endDate \/ RunDates = {}

NoBenchmarkData ==
    /\ config.benchmarkTicker # ""
    /\ \A date \in config.startDate .. config.endDate :
          ~HasBar(market, config.benchmarkTicker, date)

BacktestErrors ==
    {"Start date must be before end date",
     "No historical data found for the specified period",
     "No equity data available for performance calculation",
     "No benchmark data found"}

\* C23: a backtest with no usable trading day (start date not before end
\* date, or no bar in the range), or whose configured benchmark ticker has
\* no data, ends with one error and returns nothing: no trades, no equity
\* points and no metrics; every other backtest returns its result.
C23_FailsAsAWhole ==
    /\ bt.status = "FAILED" =>
          /\ NoTradingDay \/ NoBenchmarkData
          /\ bt.error \in BacktestErrors
          /\ bt.trades = <<>>
          /\ bt.equity = <<>>
          /\ bt.performance = NoPerformance
    /\ bt.status = "COMPLETE" =>
          /\ ~NoTradingDay
          /\ ~NoBenchmarkData
          /\ bt.error = ""
    /\ bt.status = "RUNNING" => ~NoTradingDay

C23_Witness ==
    /\ bt.status = "FAILED"
    /\ bt.error = "No benchmark data found"
    /\ config.benchmarkTicker = "SPY"
    /\ ~NoTradingDay

----------------------------------------------------------------------------
(* Properties of the auto-trading session *)

\* The results of a day that stand for a trade decision (the ERROR entries
\* of the catch block are left out)
TradeResultsOn(day) ==
    {k \in 1 .. Len(session.results) :
        session.results[k].day = day /\ session.results[k].strategy # "ERROR"}

\* C18: for every calendar day, the number of trade results of the session
\* whose timestamp falls on that day is at most maxTradesPerDay.
C18_DailyLimit ==
    session.status # "NONE" =>
        \A day \in 1 .. today :
            Cardinality(TradeResultsOn(day)) <= session.config.maxTradesPerDay

ValidatedCalls == {audit.validations[k].call : k \in 1 .. Len(audit.validations)}

ValidCalls ==
    {audit.validations[k].call :
        k \in {j \in 1 .. Len(audit.validations) : audit.validations[j].isValid}}

InvalidCalls == ValidatedCalls \ ValidCalls

ExecutedCalls == {audit.executions[k].call : k \in 1 .. Len(audit.executions)}

BlockedCalls ==
    {session.results[k].call :
        k \in {j \in 1 .. Len(session.results) :
                  session.results[j].strategy = "RISK_BLOCKED"}}

\* C19: a processTicker call hands a trade to execution only after
\* validateTradeRisk has returned isValid = true to that same call; when the
\* validation fails the call returns a failed RISK_BLOCKED result and hands
\* nothing to execution.
C19_RiskGate ==
    /\ [](/\ ExecutedCalls \subseteq ValidCalls
          /\ BlockedCalls = InvalidCalls
          /\ \A k \in 1 .. Len(session.results) :
                session.results[k].strategy = "RISK_BLOCKED" => ~session.results[k].success)
    /\ [][audit'.executions # audit.executions =>
             /\ cycle.call \in ValidCalls
             /\ audit'.executions =
                   Append(audit.executions, audit'.executions[Len(audit'.executions)])
             /\ audit'.executions[Len(audit'.executions)].call = cycle.call]_vars

C19_Witness ==
    /\ ExecutedCalls # {}
    /\ BlockedCalls # {}
    /\ \E k \in 1 .. Len(session.results) :
          session.results[k].call \in ExecutedCalls /\ session.results[k].success

\* The shares of a ticker that the trade log accounts for
LoggedQuantity(trades, ticker, action) ==
    SumSeq([k \in 1 .. Len(trades) |->
               IF trades[k].ticker = ticker /\ trades[k].action = action
               THEN trades[k].quantity ELSE 0])

\* C26: during a backtest the quantity the ledger holds of a ticker is the
\* sum of its logged BUY quantities minus the sum of its logged SELL
\* quantities: a BUY of a held ticker adds to the holding.
C26_LedgerMatchesLog ==
    bt.status \in {"RUNNING", "COMPLETE"} =>
        \A t \in Tickers :
            bt.positions[t].quantity =
                LoggedQuantity(bt.trades, t, "BUY") - LoggedQuantity(bt.trades, t, "SELL")

\* C27: the cash of a backtest is never negative, at every equity point and
\* after every recorded trade, for every sequence of BUY and SELL trades,
\* commission and slippage.
C27_CashNotNegative ==
    /\ bt.cash >= 0
    /\ \A k \in 1 .. Len(bt.trades) : bt.trades[k].cash >= 0
    /\ \A k \in 1 .. Len(bt.equity) : bt.equity[k].cash >= 0

----------------------------------------------------------------------------
(* Properties of the session life cycle and of live execution *)

\* A cycle starts: the timer callback enters the ticker loop
CycleStarts == cycle.pc = "idle" /\ cycle'.pc # "idle"

\* C25: once stopAutoTrading has completed for a session, its status stays
\* STOPPED for ever and no trading cycle starts again, whatever pause,
\* resume or stop calls follow.
C25_StoppedForEver ==
    [][session.endTime # NULL => (session'.status = "STOPPED" /\ ~CycleStarts)]_vars

C29_ErrorSticks ==
    (audit.errors > 0 /\ session.endTime = NULL) => session.status = "ERROR"

\* The answers of the position controller that stand for an executed order
Executed == {200, 201}

\* C30: in LIVE mode a result carries success = TRUE only if the position
\* controller executed the order; an order it rejected (quantity not a
\* positive integer, insufficient funds or shares) is recorded with
\* success = FALSE.
C30_LiveSuccess ==
    \A k \in 1 .. Len(session.results), e \in 1 .. Len(audit.executions) :
        (/\ session.results[k].strategy = "CONSENSUS"
         /\ audit.executions[e].call = session.results[k].call
         /\ audit.executions[e].mode = "LIVE")
            => (session.results[k].success <=> audit.executions[e].status \in Executed)

====
